---- MODULE Spec2Model ----
(***************************************************************************)
(* Operation registry and progressive-disclosure dispatch layer of the     *)
(* GitLab MCP server: ToolRegistry (registry/tool-registry.ts), the        *)
(* RegistryAdapter (registry/tool-adapter.ts) and the five meta-tools      *)
(* (registry/meta-tools.ts); around them main() with its HTTP sessions     *)
(* (server/config.ts), the module's registry instance, and the             *)
(* create_or_update_file handler (tools/repositories.ts) with the GitLab   *)
(* client.                                                                 *)
(*                                                                         *)
(* JavaScript strings that the code lower-cases or searches are sequences  *)
(* of one-character strings; texts the code only passes along are TLA+     *)
(* strings.  A JavaScript Map is a sequence of [key, value] entries in     *)
(* insertion order.  A JavaScript object is a record, a property it lacks  *)
(* being no field of the record; a schema value is the object whose _def   *)
(* property the introspector reads.  A call that can throw yields          *)
(* Returns(value) or Throws(error).                                        *)
(***************************************************************************)
EXTENDS Integers, Sequences, FiniteSets, TLC

VARIABLES
  tools,            \* ToolRegistry.tools: Map<string, RegisteredTool>
  categories,       \* ToolRegistry.categories: Map<string, CategoryInfo>
  toolsByCategory,  \* ToolRegistry.toolsByCategory: Map<string, string[]>
  regCount,         \* number of registerTool calls made so far
  serverTools,      \* McpServer: names of the tools registered with it
  last,             \* the call that has just returned, with its result
  main,             \* main(): where it stands, and the configuration it loaded
  inFlight,         \* execute_tool: the invocations in flight, by request
  registryInstance, \* tool-registry.ts: the module's registryInstance
  constructed,      \* number of registries getRegistry has constructed
  fileCall,         \* create_or_update_file: the handler call under way
  requests,         \* the fetch calls the GitLab client has made, in order
  streamableTransports, \* main(): the active transports by session id
  transports        \* the StreamableHTTPServerTransport objects created

\* the state of the server process around the registry
host == <<main, inFlight, registryInstance, constructed, fileCall, requests,
         streamableTransports, transports>>

\* the same without main, without the invocations, without the singleton,
\* without the file call, without the HTTP sessions
hostButMain == <<inFlight, registryInstance, constructed, fileCall, requests,
                streamableTransports, transports>>
hostButInFlight == <<main, registryInstance, constructed, fileCall, requests,
                    streamableTransports, transports>>
hostButSingleton == <<main, inFlight, fileCall, requests,
                     streamableTransports, transports>>
hostButFile == <<main, inFlight, registryInstance, constructed,
                streamableTransports, transports>>
hostButHttp == <<main, inFlight, registryInstance, constructed, fileCall,
                requests>>

vars == <<tools, categories, toolsByCategory, regCount, serverTools, last,
          host>>

registry == <<tools, categories, toolsByCategory>>

----------------------------------------------------------------------------
(* Bounds *)

MaxRegs == 3

MaxLimit == 2

\* execute_tool requests that can be in flight together
MaxInflight == 2

\* registries that getRegistry constructs
MaxInstances == 2

\* transports the HTTP server creates
MaxTransports == 2

----------------------------------------------------------------------------
(* Strings *)

UpperChars ==
  <<"A","B","C","D","E","F","G","H","I","J","K","L","M",
    "N","O","P","Q","R","S","T","U","V","W","X","Y","Z">>

LowerChars ==
  <<"a","b","c","d","e","f","g","h","i","j","k","l","m",
    "n","o","p","q","r","s","t","u","v","w","x","y","z">>

\* the lower-case letter of every capital
LowerOf ==
  [c \in {UpperChars[i] : i \in 1..Len(UpperChars)} |->
     LowerChars[CHOOSE i \in 1..Len(UpperChars) : UpperChars[i] = c]]

\* the characters of a string literal, one after the other
Chars(s) == [i \in 1..Len(s) |-> SubSeq(s, i, i)]

\* String.prototype.toLowerCase on one character
ToLowerChar(c) == IF c \in DOMAIN LowerOf THEN LowerOf[c] ELSE c

\* String.prototype.toLowerCase
ToLowerCase(s) == [i \in 1..Len(s) |-> ToLowerChar(s[i])]

\* String.prototype.includes
Includes(s, q) ==
  \E i \in 0..(Len(s) - Len(q)) :
    \A j \in 1..Len(q) : s[i + j] = q[j]

\* Array.prototype.join on strings
RECURSIVE Join(_, _)
Join(parts, sep) ==
  IF parts = <<>> THEN <<>>
  ELSE IF Len(parts) = 1 THEN parts[1]
  ELSE parts[1] \o sep \o Join(Tail(parts), sep)

\* slice(0, end) that keeps one element too many
Slice_oneMore(s, end) ==
  SubSeq(s, 1, IF end + 1 > Len(s) THEN Len(s) ELSE end + 1)

\* Array.prototype.slice(0, end)
Slice(s, end) ==
  LET len == Len(s)
      k == IF end < 0 THEN (IF len + end < 0 THEN 0 ELSE len + end)
           ELSE (IF end > len THEN len ELSE end)
  IN SubSeq(s, 1, k)

----------------------------------------------------------------------------
(* JavaScript Map: entries [key, value] in insertion order *)

MapHas(m, k) == \E i \in 1..Len(m) : m[i].key = k

MapIndex(m, k) == CHOOSE i \in 1..Len(m) : m[i].key = k

MapGet(m, k) == m[MapIndex(m, k)].value

\* Map.prototype.set: an existing key keeps its position
MapSet(m, k, v) ==
  IF MapHas(m, k)
  THEN [m EXCEPT ![MapIndex(m, k)] = [key |-> k, value |-> v]]
  ELSE Append(m, [key |-> k, value |-> v])

MapKeys(m) == [i \in 1..Len(m) |-> m[i].key]

MapValues(m) == [i \in 1..Len(m) |-> m[i].value]

----------------------------------------------------------------------------
(* ToolRegistry *)

categoryDefs ==
  <<
    [name |-> <<"r","e","p","o","s","i","t","o","r","i","e","s">>,
     description |-> "Search, create, fork repositories. Get file contents, push files, manage branches."],
    [name |-> <<"m","e","r","g","e","-","r","e","q","u","e","s","t","s">>,
     description |-> "Create, update, merge MRs. List MRs, get diffs, manage discussions and threads."],
    [name |-> <<"i","s","s","u","e","s">>,
     description |-> "Create, update, delete issues. List issues, manage issue links and discussions."],
    [name |-> <<"p","i","p","e","l","i","n","e","s">>,
     description |-> "List, create, retry, cancel pipelines. Get pipeline jobs and their output."],
    [name |-> <<"p","r","o","j","e","c","t","s">>,
     description |-> "Get project details, list projects, manage project members and labels."],
    [name |-> <<"c","o","m","m","i","t","s">>,
     description |-> "List commits, get commit details and diffs."],
    [name |-> <<"n","a","m","e","s","p","a","c","e","s">>,
     description |-> "List, get, and verify namespaces (groups and users)."],
    [name |-> <<"m","i","l","e","s","t","o","n","e","s">>,
     description |-> "Create, edit, delete milestones. Get milestone issues and merge requests."],
    [name |-> <<"w","i","k","i">>,
     description |-> "List, create, update, delete wiki pages."],
    [name |-> <<"r","e","l","e","a","s","e","s">>,
     description |-> "List, create, update, delete releases. Download release assets."],
    [name |-> <<"u","s","e","r","s">>,
     description |-> "Get user details by username."],
    [name |-> <<"s","e","a","r","c","h">>,
     description |-> "Global, project, and group search across issues, merge requests, code, commits, and more."],
    [name |-> <<"n","o","t","e","s">>,
     description |-> "Create and manage notes (comments) on issues and merge requests. Draft notes for MRs."],
    [name |-> <<"e","v","e","n","t","s">>,
     description |-> "List user and project events/activity."],
    [name |-> <<"g","r","o","u","p","s">>,
     description |-> "List group projects and iterations."]
  >>

\* constructor / initializeCategories: every category seeded with count 0
initCategories ==
  [i \in 1..Len(categoryDefs) |->
     [key   |-> categoryDefs[i].name,
      value |-> [name        |-> categoryDefs[i].name,
                 description |-> categoryDefs[i].description,
                 toolCount   |-> 0]]]

\* constructor / initializeCategories: every category seeded with no tool
initToolsByCategory ==
  [i \in 1..Len(categoryDefs) |->
     [key |-> categoryDefs[i].name, value |-> <<>>]]

ToolInfo(name, category, title, description, inputSchema, outputSchema) ==
  [name         |-> name,
   title        |-> title,
   description  |-> description,
   category     |-> category,
   inputSchema  |-> inputSchema,
   outputSchema |-> outputSchema]

\* registerTool that leaves an entry already stored under the name alone
registerTool_tools_keepFirst(name, info, handler) ==
  IF MapHas(tools, name) THEN tools
  ELSE Append(tools, [key |-> name, value |-> [info |-> info, handler |-> handler]])

\* registerTool: the tools map after the call
registerTool_tools(name, info, handler) ==
  MapSet(tools, name, [info |-> info, handler |-> handler])

\* registerTool that starts the category's list over with the new name
registerTool_toolsByCategory_replaced(name, category) ==
  IF MapHas(toolsByCategory, category)
  THEN MapSet(toolsByCategory, category, <<name>>)
  ELSE toolsByCategory

\* registerTool: the per-category name lists after the call
registerTool_toolsByCategory(name, category) ==
  IF MapHas(toolsByCategory, category)
  THEN MapSet(toolsByCategory, category,
              Append(MapGet(toolsByCategory, category), name))
  ELSE toolsByCategory

\* registerTool that opens a category for a name it does not know
registerTool_categories_created(category) ==
  IF MapHas(toolsByCategory, category) /\ MapHas(categories, category)
  THEN MapSet(categories, category,
              [MapGet(categories, category) EXCEPT !.toolCount = @ + 1])
  ELSE MapSet(categories, category,
              [name |-> category, description |-> <<>>, toolCount |-> 1])

\* registerTool that counts under the lower-cased category name
registerTool_categories_lowered(category) ==
  IF MapHas(categories, ToLowerCase(category))
  THEN MapSet(categories, ToLowerCase(category),
              [MapGet(categories, ToLowerCase(category))
                 EXCEPT !.toolCount = @ + 1])
  ELSE categories

\* registerTool: the category descriptors after the call
registerTool_categories(category) ==
  IF MapHas(toolsByCategory, category) /\ MapHas(categories, category)
  THEN MapSet(categories, category,
              [MapGet(categories, category) EXCEPT !.toolCount = @ + 1])
  ELSE categories

\* listCategories without the toolCount filter
listCategories_unfiltered == MapValues(categories)

listCategories ==
  SelectSeq(MapValues(categories), LAMBDA cat : cat.toolCount > 0)

\* listCategories that drops the categories without tools from the Map
\* itself
listCategories_categories_filtered ==
  SelectSeq(categories, LAMBDA entry : entry.value.toolCount > 0)

\* listCategories: the categories Map after the call; the filter works on
\* an array made from the Map's values
listCategories_categories == categories

\* listTools that looks the category up as it was typed
listTools_caseSensitive(category) ==
  IF ~MapHas(toolsByCategory, category) THEN <<>>
  ELSE LET toolNames == MapGet(toolsByCategory, category) IN
       [i \in 1..Len(toolNames) |->
          [name        |-> toolNames[i],
           description |-> MapGet(tools, toolNames[i]).info.description]]

listTools(category) ==
  LET key == ToLowerCase(category) IN
  IF ~MapHas(toolsByCategory, key) THEN <<>>
  ELSE LET toolNames == MapGet(toolsByCategory, key) IN
       [i \in 1..Len(toolNames) |->
          [name        |-> toolNames[i],
           description |-> IF MapHas(tools, toolNames[i])
                           THEN MapGet(tools, toolNames[i]).info.description
                           ELSE <<>>]]

\* the score with the weights of name and description exchanged
searchScore_swapped(name, info, queryLower) ==
    (IF Includes(ToLowerCase(name), queryLower) THEN 1 ELSE 0)
  + (IF Includes(ToLowerCase(info.title), queryLower) THEN 2 ELSE 0)
  + (IF Includes(ToLowerCase(info.description), queryLower) THEN 3 ELSE 0)

\* searchTools: the score of one registered tool
searchScore(name, info, queryLower) ==
    (IF Includes(ToLowerCase(name), queryLower) THEN 3 ELSE 0)
  + (IF Includes(ToLowerCase(info.title), queryLower) THEN 2 ELSE 0)
  + (IF Includes(ToLowerCase(info.description), queryLower) THEN 1 ELSE 0)

\* searchTools: the loop over this.tools, pushing the tools that score
RECURSIVE searchResults(_, _)
searchResults(entries, queryLower) ==
  IF entries = <<>> THEN <<>>
  ELSE LET n     == Len(entries)
           e     == entries[n]
           score == searchScore(e.key, e.value.info, queryLower)
           front == searchResults(SubSeq(entries, 1, n - 1), queryLower)
       IN IF score > 0
          THEN Append(front,
                      [score |-> score,
                       tool  |-> [name        |-> e.key,
                                  description |-> e.value.info.description]])
          ELSE front

\* an insertion in front of the elements that score the same
sortInsert_beforeEqual(sorted, r) ==
  LET k == Cardinality({i \in 1..Len(sorted) : sorted[i].score > r.score})
  IN SubSeq(sorted, 1, k) \o <<r>> \o SubSeq(sorted, k + 1, Len(sorted))

\* Array.prototype.sort((a, b) => b.score - a.score): a stable sort, one
\* insertion behind the elements that do not score lower
sortInsert(sorted, r) ==
  LET k == Cardinality({i \in 1..Len(sorted) : sorted[i].score >= r.score})
  IN SubSeq(sorted, 1, k) \o <<r>> \o SubSeq(sorted, k + 1, Len(sorted))

RECURSIVE sortByScore(_)
sortByScore(results) ==
  IF results = <<>> THEN <<>>
  ELSE LET n == Len(results)
       IN sortInsert(sortByScore(SubSeq(results, 1, n - 1)), results[n])

\* the default value of searchTools' limit parameter
DefaultLimit == 20

\* searchTools(query, limit)
searchTools(query, limit) ==
  LET ranked == sortByScore(searchResults(tools, ToLowerCase(query)))
      kept   == Slice(ranked, limit)
  IN [i \in 1..Len(kept) |-> kept[i].tool]

\* JavaScript null
Null == [null |-> TRUE]

getToolSchema(toolName) ==
  IF MapHas(tools, toolName) THEN MapGet(tools, toolName).info ELSE Null

getHandler(toolName) ==
  IF MapHas(tools, toolName) THEN MapGet(tools, toolName).handler ELSE Null

hasTool(toolName) == MapHas(tools, toolName)

getAllToolNames == MapKeys(tools)

----------------------------------------------------------------------------
(* Schema introspector: ToolRegistry.serializeSchema                       *)
(*                                                                         *)
(* A JavaScript object is a record; a property the object lacks is absent  *)
(* from the record's domain.  A function is [call |-> v], v being what a   *)
(* call returns.  A string that the code tests with typeof is [str |-> s]. *)
(* What a method does is Returns(v) or Throws(e).                          *)

\* JavaScript undefined
Undefined == [undefined |-> TRUE]

\* v is null or undefined
Nullish(v) == v = Null \/ v = Undefined

\* obj.f for a property holding an object, a function, null or undefined
Get(obj, f) == IF f \in DOMAIN obj THEN obj[f] ELSE Undefined

\* typeof v === "string"
IsString(v) == "str" \in DOMAIN v

\* typeof v === "function"
IsCallable(v) == "call" \in DOMAIN v

Returns(v) == [value |-> v]

Throws(e) == [error |-> e]

Raised(outcome) == "error" \in DOMAIN outcome

TypeError == "TypeError"

\* schema[k] = v
SetKey(schema, k, v) ==
  [f \in DOMAIN schema \cup {k} |-> IF f = k THEN v ELSE schema[f]]

\* { ...a, ...b }
Spread(a, b) ==
  [f \in DOMAIN a \cup DOMAIN b |-> IF f \in DOMAIN b THEN b[f] ELSE a[f]]

RECURSIVE Concat(_)
\* the string made of the given characters
Concat(chars) ==
  IF chars = <<>> THEN "" ELSE Head(chars) \o Concat(Tail(chars))

\* String.prototype.toLowerCase on a string value
ToLowerString(s) == Concat(ToLowerCase(Chars(s)))

\* String.prototype.replace("Zod", ""): the first occurrence goes
ReplaceZod(s) ==
  LET at == { i \in 1..(Len(s) - 2) : SubSeq(s, i, i + 2) = "Zod" } IN
  IF at = {} THEN s
  ELSE LET i == CHOOSE k \in at : \A m \in at : k <= m
       IN SubSeq(s, 1, i - 1) \o SubSeq(s, i + 3, Len(s))

unknownSchema == [type |-> "unknown"]

RECURSIVE applyStringChecks_swapped(_, _)
\* applyStringChecks that writes the bound of a max check as minLength and
\* the bound of a min check as maxLength
applyStringChecks_swapped(schema, checks) ==
  IF checks = <<>> THEN schema
  ELSE LET check == Head(checks)
           kind  == IF "kind" \in DOMAIN check THEN check.kind ELSE ""
           max   == IF kind = "max"
                    THEN SetKey(schema, "minLength", Get(check, "value"))
                    ELSE schema
           min   == IF kind = "min"
                    THEN SetKey(max, "maxLength", Get(check, "value"))
                    ELSE max
       IN applyStringChecks_swapped(min, Tail(checks))

RECURSIVE applyStringChecks(_, _)
\* ToolRegistry.applyStringChecks, for checks that are there
applyStringChecks(schema, checks) ==
  IF checks = <<>> THEN schema
  ELSE LET check == Head(checks)
           kind  == IF "kind" \in DOMAIN check THEN check.kind ELSE ""
           max   == IF kind = "max"
                    THEN SetKey(schema, "maxLength", Get(check, "value"))
                    ELSE schema
           min   == IF kind = "min"
                    THEN SetKey(max, "minLength", Get(check, "value"))
                    ELSE max
       IN applyStringChecks(min, Tail(checks))

RECURSIVE numberChecks(_, _)
\* ToolRegistry.handleZodNumber: the loop over the checks
numberChecks(schema, checks) ==
  IF checks = <<>> THEN schema
  ELSE LET check == Head(checks)
           kind  == IF "kind" \in DOMAIN check THEN check.kind ELSE ""
           int   == IF kind = "int" THEN SetKey(schema, "type", "integer")
                    ELSE schema
           min   == IF kind = "min"
                    THEN SetKey(int, "minimum", Get(check, "value"))
                    ELSE int
           max   == IF kind = "max"
                    THEN SetKey(min, "maximum", Get(check, "value"))
                    ELSE min
       IN numberChecks(max, Tail(checks))

\* ToolRegistry.handleZodNumber
handleZodNumber(def) ==
  numberChecks([type |-> "number"],
               IF "checks" \in DOMAIN def THEN def.checks ELSE <<>>)

RECURSIVE zodToJsonSchema(_)
RECURSIVE serializeSchema(_)

\* ToolRegistry.handleZodArray
handleZodArray(def) ==
  LET itemType == IF ~Nullish(Get(def, "element")) THEN def.element
                  ELSE IF "type" \in DOMAIN def /\ ~IsString(def.type)
                       THEN def.type
                       ELSE Undefined
      items    == IF Nullish(itemType) THEN Returns(unknownSchema)
                  ELSE zodToJsonSchema(itemType)
  IN IF Raised(items) THEN items
     ELSE LET schema == [type |-> "array", items |-> items.value]
              max    == IF ~Nullish(Get(def, "maxLength"))
                        THEN SetKey(schema, "maxItems",
                                    Get(def.maxLength, "value"))
                        ELSE schema
              min    == IF ~Nullish(Get(def, "minLength"))
                        THEN SetKey(max, "minItems",
                                    Get(def.minLength, "value"))
                        ELSE max
          IN Returns(min)

\* handleZodWrapper that describes the wrapper without looking at what it
\* wraps
handleZodWrapper_innerDropped(def, extraProps) ==
  Returns(Spread(unknownSchema, extraProps))

\* ToolRegistry.handleZodWrapper
handleZodWrapper(def, extraProps) ==
  LET innerZodType == Get(def, "innerType")
      schema       == IF Nullish(innerZodType) THEN Returns(unknownSchema)
                      ELSE zodToJsonSchema(innerZodType)
  IN IF Raised(schema) THEN schema
     ELSE Returns(Spread(schema.value, extraProps))

\* ToolRegistry.handleZodObject
handleZodObject(def) ==
  LET given      == Get(def, "shape")
      shape      == IF Nullish(given) THEN <<>>
                    ELSE IF IsCallable(given) THEN given.call
                    ELSE given
      properties == serializeSchema(shape)
  IN IF Raised(properties) THEN properties
     ELSE Returns([type |-> "object", properties |-> properties.value])

v3ToV4 ==
  [ZodString   |-> "string",   ZodNumber  |-> "number",
   ZodBoolean  |-> "boolean",  ZodArray   |-> "array",
   ZodObject   |-> "object",   ZodOptional |-> "optional",
   ZodDefault  |-> "default",  ZodEnum    |-> "enum",
   ZodUnion    |-> "union",    ZodNullable |-> "nullable"]

\* ToolRegistry.normalizeZodTypeName; the empty string stands for undefined
\* as well, the two being falsy alike
normalizeZodTypeName(name) ==
  IF name = "" THEN ""
  ELSE IF name \in DOMAIN v3ToV4 THEN v3ToV4[name]
  ELSE name

RECURSIVE unionOptions(_)
\* def.options.map((opt) => this.zodToJsonSchema(opt))
unionOptions(options) ==
  IF options = <<>> THEN Returns(<<>>)
  ELSE LET first == zodToJsonSchema(Head(options)) IN
       IF Raised(first) THEN first
       ELSE LET rest == unionOptions(Tail(options)) IN
            IF Raised(rest) THEN rest
            ELSE Returns(<<first.value>> \o rest.value)

\* def.defaultValue?.() that throws for whatever is there and no function
buildSchemaForType_default(def) ==
  LET provider == Get(def, "defaultValue") IN
  IF Nullish(provider)
  THEN handleZodWrapper(def, [default |-> Undefined])
  ELSE IF IsCallable(provider)
  THEN handleZodWrapper(def, [default |-> provider.call])
  ELSE Throws(TypeError)

\* ToolRegistry.buildSchemaForType
buildSchemaForType(typeName, def) ==
  IF typeName = "string"
  THEN Returns(IF "checks" \in DOMAIN def
               THEN applyStringChecks([type |-> "string"], def.checks)
               ELSE [type |-> "string"])
  ELSE IF typeName = "number" THEN Returns(handleZodNumber(def))
  ELSE IF typeName = "boolean" THEN Returns([type |-> "boolean"])
  ELSE IF typeName = "array" THEN handleZodArray(def)
  ELSE IF typeName = "object" THEN handleZodObject(def)
  ELSE IF typeName = "optional"
  THEN handleZodWrapper(def, [optional |-> TRUE])
  ELSE IF typeName = "default" THEN buildSchemaForType_default(def)
  ELSE IF typeName = "enum"
  THEN Returns([type |-> "string",
                enum |-> IF "values" \in DOMAIN def THEN def.values
                         ELSE IF "entries" \in DOMAIN def
                         THEN [i \in 1..Len(def.entries) |-> def.entries[i].key]
                         ELSE <<>>])
  ELSE IF typeName = "union"
  THEN IF "options" \in DOMAIN def
       THEN LET oneOf == unionOptions(def.options) IN
            IF Raised(oneOf) THEN oneOf
            ELSE Returns([oneOf |-> oneOf.value])
       ELSE Returns([oneOf |-> <<>>])
  ELSE IF typeName = "nullable"
  THEN handleZodWrapper(def, [nullable |-> TRUE])
  ELSE Returns([type |-> IF typeName # ""
                         THEN ToLowerString(ReplaceZod(typeName))
                         ELSE "unknown"])

\* ToolRegistry.zodToJsonSchema
zodToJsonSchema(zodType) ==
  IF Nullish(zodType) THEN Throws(TypeError)
  ELSE LET def == Get(zodType, "_def") IN
    IF Nullish(def) THEN Returns(unknownSchema)
    ELSE LET rawTypeName ==
               IF "typeName" \in DOMAIN def /\ def.typeName # ""
               THEN def.typeName
               ELSE IF "type" \in DOMAIN def /\ IsString(def.type)
               THEN def.type.str
               ELSE ""
             typeName == normalizeZodTypeName(rawTypeName)
             schema   == buildSchemaForType(typeName, def)
         IN IF Raised(schema) THEN schema
            ELSE IF "description" \in DOMAIN def /\ def.description # ""
            THEN Returns(SetKey(schema.value, "description", def.description))
            ELSE schema

\* ToolRegistry.serializeSchema; Object.entries throws for null and
\* undefined
serializeSchema(schema) ==
  IF Nullish(schema) THEN Throws(TypeError)
  ELSE IF \E key \in DOMAIN schema : Raised(zodToJsonSchema(schema[key]))
  THEN Throws(TypeError)
  ELSE Returns([key \in DOMAIN schema |-> zodToJsonSchema(schema[key]).value])

----------------------------------------------------------------------------
(* Tool handlers.  A handler is a function supplied by a domain module; *)
(* what one invocation does is decided by the remote API.               *)

\* String(error) for a thrown value that is not an Error
JsString(v) ==
  CASE v.type = "string"    -> v.value
    [] v.type = "undefined" -> "undefined"
    [] v.type = "null"      -> "null"
    [] v.type = "object"    -> "[object Object]"

\* ToolHandler: the ways one invocation of handler h with params can settle
HandlerOutcomes(h, params) ==
  { [kind  |-> "resolve",
     value |-> [content |-> <<[type |-> "text", text |-> <<h.fn, "ok">>]>>,
                structuredContent |-> [by |-> h.fn, params |-> params]]],
    [kind  |-> "resolve",
     value |-> [content |-> <<[type |-> "text", text |-> <<h.fn, "failed">>]>>,
                isError |-> TRUE]],
    [kind  |-> "reject",
     error |-> [type |-> "Error", message |-> "GitLab API error: 404 Not Found"]],
    [kind  |-> "reject",
     error |-> [type |-> "string", value |-> "socket hang up"]],
    [kind  |-> "reject",
     error |-> [type |-> "undefined"]] }

----------------------------------------------------------------------------
(* Meta-tools (registerMetaTools).  A text is the sequence of the parts *)
(* its template literal is put together from.                           *)

TextContent(text) == <<[type |-> "text", text |-> text]>>

Comma == <<",", " ">>

NamesOf(infos) == [i \in 1..Len(infos) |-> infos[i].name]

\* list_categories
list_categories ==
  LET cats == listCategories IN
  [content |-> TextContent(
     <<"Available categories:\n",
       [i \in 1..Len(cats) |->
          <<"- **", cats[i].name, "** (", cats[i].toolCount, " tools): ",
            cats[i].description>>]>>),
   structuredContent |-> [categories |-> cats]]

\* list_tools whose error text names every seeded category
list_tools_allSeeded(category) ==
  LET found == listTools(category) IN
  IF Len(found) = 0
  THEN [content |-> TextContent(
          <<"Category '", category,
            "' not found or has no tools. Available categories: ",
            Join(NamesOf(MapValues(categories)), Comma)>>),
        structuredContent |-> [tools |-> <<>>],
        isError |-> TRUE]
  ELSE [content |-> TextContent(
          <<"Tools in ", category, ":\n",
            [i \in 1..Len(found) |->
               <<"- **", found[i].name, "**: ", found[i].description>>]>>),
        structuredContent |-> [tools |-> found]]

\* list_tools
list_tools(category) ==
  LET found == listTools(category) IN
  IF Len(found) = 0
  THEN LET available == Join(NamesOf(listCategories), Comma) IN
       [content |-> TextContent(
          <<"Category '", category,
            "' not found or has no tools. Available categories: ",
            available>>),
        structuredContent |-> [tools |-> <<>>],
        isError |-> TRUE]
  ELSE [content |-> TextContent(
          <<"Tools in ", category, ":\n",
            [i \in 1..Len(found) |->
               <<"- **", found[i].name, "**: ", found[i].description>>]>>),
        structuredContent |-> [tools |-> found]]

\* search_tools inputSchema: limit is an integer in 1..50, 20 when left out
SchemaMinLimit == 1

SchemaMaxLimit == 50

SchemaDefaultLimit == 20

\* search_tools: the 20 of `limit || 20`
FallbackLimit == 20

\* search_tools that flags the result of a search that found nothing
search_tools_emptyFlagged(args) ==
  LET limit == IF "limit" \in DOMAIN args THEN args.limit ELSE SchemaDefaultLimit
      found == searchTools(args.query, IF limit # 0 THEN limit ELSE FallbackLimit)
  IN
  IF Len(found) = 0
  THEN [content |-> TextContent(
          <<"No tools found matching '", args.query,
            "'. Try a different search term or use list_categories to browse.">>),
        structuredContent |-> [tools |-> <<>>],
        isError |-> TRUE]
  ELSE [content |-> TextContent(
          <<"Found ", Len(found), " tool(s) matching '", args.query, "':\n",
            [i \in 1..Len(found) |->
               <<"- **", found[i].name, "**: ", found[i].description>>]>>),
        structuredContent |-> [tools |-> found]]

\* search_tools; args.limit is absent when the caller left it out, and the
\* input schema then supplies its default
search_tools(args) ==
  LET limit == IF "limit" \in DOMAIN args THEN args.limit ELSE SchemaDefaultLimit
      found == searchTools(args.query, IF limit # 0 THEN limit ELSE FallbackLimit)
  IN
  IF Len(found) = 0
  THEN [content |-> TextContent(
          <<"No tools found matching '", args.query,
            "'. Try a different search term or use list_categories to browse.">>),
        structuredContent |-> [tools |-> <<>>]]
  ELSE [content |-> TextContent(
          <<"Found ", Len(found), " tool(s) matching '", args.query, "':\n",
            [i \in 1..Len(found) |->
               <<"- **", found[i].name, "**: ", found[i].description>>]>>),
        structuredContent |-> [tools |-> found]]

\* JSON.stringify(value, null, 2), kept as the value it prints
JsonStringify(value) == [json |-> value]

\* get_tool_schema: the result for a name that has no descriptor
get_tool_schema_notFound(toolName) ==
  [content |-> TextContent(
     <<"Tool '", toolName,
       "' not found. Use search_tools or list_tools to find valid tool names.">>),
   isError |-> TRUE]

\* get_tool_schema: what the handler returns, or the error it lets escape;
\* the Markdown code fence of the text is written ~~~
get_tool_schema(toolName) ==
  LET schema == getToolSchema(toolName) IN
  IF schema = Null THEN Returns(get_tool_schema_notFound(toolName))
  ELSE
    LET serializedInput  == serializeSchema(schema.inputSchema)
        serializedOutput == serializeSchema(schema.outputSchema)
    IN IF Raised(serializedInput) THEN serializedInput
       ELSE IF Raised(serializedOutput) THEN serializedOutput
       ELSE Returns(
         [content |-> TextContent(
            <<"## ", schema.title, "\n\n", schema.description,
              "\n\n**Category:** ", schema.category,
              "\n\n**Input Parameters:**\n~~~json\n",
              JsonStringify(serializedInput.value),
              "\n~~~\n\n**Output:**\n~~~json\n",
              JsonStringify(serializedOutput.value), "\n~~~">>),
          structuredContent |->
            [name         |-> schema.name,
             title        |-> schema.title,
             description  |-> schema.description,
             category     |-> schema.category,
             inputSchema  |-> serializedInput.value,
             outputSchema |-> serializedOutput.value]])

\* registerMetaTools without its get_tool_schema registration
MetaToolNames_withoutSchema ==
  <<"list_categories", "list_tools", "search_tools", "execute_tool">>

\* registerMetaTools: the names given to server.registerTool, in order
MetaToolNames ==
  <<"list_categories", "list_tools", "search_tools", "get_tool_schema",
    "execute_tool">>

\* the not-found result without its error flag
execute_tool_notFound_unflagged(toolName) ==
  [content |-> TextContent(
     <<"Tool '", toolName,
       "' not found. Use search_tools or list_tools to find valid tool names.">>),
   structuredContent |-> [success |-> FALSE,
                          error   |-> <<"Tool '", toolName, "' not found">>]]

\* execute_tool: the result for a name that has no handler
execute_tool_notFound(toolName) ==
  [content |-> TextContent(
     <<"Tool '", toolName,
       "' not found. Use search_tools or list_tools to find valid tool names.">>),
   structuredContent |-> [success |-> FALSE,
                          error   |-> <<"Tool '", toolName, "' not found">>],
   isError |-> TRUE]

\* execute_tool: the catch block
execute_tool_catch(error) ==
  LET errorMessage == IF error.type = "Error" THEN error.message
                      ELSE JsString(error)
  IN [content |-> TextContent(<<"Tool execution failed: ", errorMessage>>),
      structuredContent |-> [success |-> FALSE, error |-> errorMessage],
      isError |-> TRUE]

\* execute_tool without its try/catch: a rejection reaches the caller
execute_tool_settle_uncaught(outcome) ==
  IF outcome.kind = "resolve"
  THEN [kind |-> "return", value |-> outcome.value]
  ELSE [kind |-> "throw", error |-> outcome.error]

\* execute_tool that rebuilds the result from the handler's content only
execute_tool_settle_rebuilt(outcome) ==
  IF outcome.kind = "resolve"
  THEN [kind |-> "return", value |-> [content |-> outcome.value.content]]
  ELSE [kind |-> "return", value |-> execute_tool_catch(outcome.error)]

\* execute_tool: what the call does once the awaited handler has settled
execute_tool_settle(outcome) ==
  IF outcome.kind = "resolve"
  THEN [kind |-> "return", value |-> outcome.value]
  ELSE [kind |-> "return", value |-> execute_tool_catch(outcome.error)]

----------------------------------------------------------------------------
(* Inputs *)

issues == <<"i","s","s","u","e","s">>

pipelines == <<"p","i","p","e","l","i","n","e","s">>

\* tool names: "aB" and "b"
ToolNames == { <<"a","B">>, <<"b">> }

\* categories passed to registerTool: two seeded ones and "Issues", which
\* is not a key of the seeded maps
RegCategories == { issues, pipelines, <<"I","s","s","u","e","s">> }

\* one entry of an object
Field(key, value) == [key |-> key, value |-> value]

\* the object with the given entries
Obj(fields) ==
  [k \in { fields[i].key : i \in 1..Len(fields) } |->
     fields[CHOOSE i \in 1..Len(fields) : fields[i].key = k].value]

ZString == [_def |-> [typeName |-> "ZodString"]]

ZBoolean == [_def |-> [typeName |-> "ZodBoolean"]]

ZNumber == [_def |-> [typeName |-> "ZodNumber"]]

ZEnum(values) == [_def |-> [typeName |-> "ZodEnum", values |-> values]]

ZArray(type) == [_def |-> [typeName |-> "ZodArray", type |-> type]]

\* z.object(shape); fields are the entries of shape; _def.shape is a function
ZObject(fields) ==
  [_def |-> [typeName |-> "ZodObject", shape |-> [call |-> Obj(fields)]]]

ZOptional(innerType) ==
  [_def |-> [typeName |-> "ZodOptional", innerType |-> innerType]]

\* zodType.describe(description)
Describe(zodType, description) ==
  [_def |-> [f \in DOMAIN zodType._def \cup {"description"} |->
               IF f = "description" THEN description ELSE zodType._def[f]]]

ZNullable(innerType) ==
  [_def |-> [typeName |-> "ZodNullable", innerType |-> innerType]]

\* a default wrapper whose _def.defaultValue is the given value
ZDefault(innerType, defaultValue) ==
  [_def |-> [typeName |-> "ZodDefault", innerType |-> innerType,
             defaultValue |-> defaultValue]]

ZUnion(options) == [_def |-> [typeName |-> "ZodUnion", options |-> options]]

\* z.string().min(m).max(n) and z.string().max(n).min(m)
ZStringMinMax(m, n) ==
  { [_def |-> [typeName |-> "ZodString",
               checks |-> <<[kind |-> "min", value |-> m],
                            [kind |-> "max", value |-> n]>>]],
    [_def |-> [typeName |-> "ZodString",
               checks |-> <<[kind |-> "max", value |-> n],
                            [kind |-> "min", value |-> m]>>]] }

\* string lengths given to min and max
MaxLength == 2

\* nesting depth of the schema values handed to the introspector
MaxDepth == 2

\* enum literal lists
EnumLists == { <<"opened", "closed">>, <<"asc">> }

\* schema values that wrap nothing: the kinds of both Zod generations, a
\* kind the introspector has no branch for, a definition with no kind tag,
\* values with no definition, wrappers that lack their inner schema
ZodLeaves ==
  { ZString, ZNumber, ZBoolean,
    [_def |-> [typeName |-> "ZodNumber",
               checks |-> <<[kind |-> "int"], [kind |-> "min", value |-> 1],
                            [kind |-> "max", value |-> 50]>>]],
    [_def |-> [type |-> [str |-> "string"]]],
    [_def |-> [type |-> [str |-> "enum"],
               entries |-> <<Field("asc", "asc"), Field("desc", "desc")>>]],
    [_def |-> [typeName |-> "ZodDate"]],
    [_def |-> [type |-> [str |-> "date"]]],
    [_def |-> [checks |-> <<>>]],
    [_def |-> Undefined],
    [_def |-> Null],
    [parse |-> [call |-> Undefined]],
    [_def |-> [typeName |-> "ZodOptional"]],
    [_def |-> [typeName |-> "ZodNullable"]],
    [_def |-> [typeName |-> "ZodDefault",
               defaultValue |-> [call |-> [num |-> 20]]]],
    [_def |-> [typeName |-> "ZodArray"]] }
  \cup ZStringMinMax(1, MaxLength)
  \cup { ZEnum(values) : values \in EnumLists }

\* the schema values that wrap the given one, at any depth
ZodWrappers(zodType) ==
  { ZOptional(zodType), ZNullable(zodType), ZArray(zodType),
    ZDefault(zodType, [call |-> [num |-> 20]]),
    ZDefault(zodType, [num |-> 20]) }
  \cup (IF ~Nullish(Get(zodType, "_def"))
        THEN { Describe(zodType, "the id") } ELSE {})

\* the schema values that wrap the given one, built around leaves only
LeafWrappers(zodType) ==
  { [_def |-> [type |-> [str |-> "optional"], innerType |-> zodType]],
    [_def |-> [type |-> [str |-> "nullable"], innerType |-> zodType]],
    [_def |-> [typeName |-> "ZodDefault", innerType |-> zodType]],
    [_def |-> [type |-> [str |-> "array"], element |-> zodType]],
    ZDefault(zodType, [call |-> [obj |-> <<>>]]),
    ZDefault(zodType, [obj |-> <<>>]),
    ZObject(<<Field("id", zodType)>>),
    ZUnion(<<zodType, ZNumber>>) }

RECURSIVE ZodValues(_)
\* the schema values nested at most depth deep
ZodValues(depth) ==
  IF depth = 0 THEN ZodLeaves
  ELSE ZodLeaves
       \cup UNION { LeafWrappers(zodType) : zodType \in ZodLeaves }
       \cup UNION { ZodWrappers(zodType) : zodType \in ZodValues(depth - 1) }

\* the schema mappings handed to serializeSchema: one schema value of every
\* shape up to the depth, strings of every pair of lengths, mappings of no
\* and of two keys
SchemaMappings(depth) ==
  { Obj(<<Field("p", zodType)>>) : zodType \in ZodValues(depth) }
  \cup { Obj(<<Field("title", zodType)>>) :
           zodType \in UNION { ZStringMinMax(m, n) :
                                 m \in 1..MaxLength, n \in 1..MaxLength } }
  \cup { Obj(<<>>),
         Obj(<<Field("project_id", ZString), Field("confidential", ZBoolean)>>),
         Obj(<<Field("title",
                     [_def |-> [typeName |-> "ZodString",
                                checks |-> <<[kind |-> "min", value |-> 1],
                                             [kind |-> "max", value |-> 2]>>]]),
               Field("state", ZOptional(ZEnum(<<"opened", "closed">>)))>>) }

\* the configs handed to RegistryAdapter.registerTool: with both schema
\* mappings, with none, with an input schema only
AdapterConfigs ==
  { [title        |-> <<"A","b">>,
     description  |-> <<"B","a">>,
     inputSchema  |-> Obj(<<Field("project_id", Describe(ZString, "the id")),
                            Field("per_page",
                                  ZDefault(ZNumber, [call |-> [num |-> 20]]))>>),
     outputSchema |-> Obj(<<Field("success", ZBoolean)>>)],
    [title        |-> <<"x">>,
     description  |-> <<"a">>],
    [title        |-> <<"x">>,
     description  |-> <<"B","a">>,
     inputSchema  |-> Obj(<<Field("state",
                                  ZOptional(ZEnum(<<"opened", "closed">>)))>>)],
    [title        |-> <<"A","b">>,
     description  |-> <<"a">>,
     inputSchema  |-> Obj(<<Field("per_page", ZDefault(ZNumber, [num |-> 20]))>>),
     outputSchema |-> Obj(<<>>)] }

\* the categories adapters are bound to
AdapterCategories == { issues, pipelines }


\* what a domain module passes along with the name: title "Ab" or "x",
\* description "Ba" or "a", the schema mappings and the handler
ToolDefs ==
  { [title        |-> <<"A","b">>,
     description  |-> <<"B","a">>,
     inputSchema  |-> Obj(<<Field("project_id", ZString)>>),
     outputSchema |-> Obj(<<>>),
     handler      |-> [fn |-> "h1"]],
    [title        |-> <<"x">>,
     description  |-> <<"a">>,
     inputSchema  |-> Obj(<<>>),
     outputSchema |-> Obj(<<Field("success", ZBoolean)>>),
     handler      |-> [fn |-> "h2"]] }

\* categories asked of list_tools: "issues", "ISSUES", "Pipelines", "custom"
ListedCategories ==
  { issues,
    <<"I","S","S","U","E","S">>,
    <<"P","i","p","e","l","i","n","e","s">>,
    <<"c","u","s","t","o","m">> }

\* search terms: "", "A", "b", "x", "ab"
Queries == { <<>>, <<"A">>, <<"b">>, <<"x">>, <<"a","b">> }

\* limits passed to search_tools
Limits == SchemaMinLimit..MaxLimit

SearchArgs ==
  { [query |-> q] : q \in Queries }
  \cup { [query |-> q, limit |-> l] : q \in Queries, l \in Limits }

\* names asked of execute_tool: the tool names and "ab", never registered
ExecutedNames == ToolNames \cup { <<"a","b">> }

\* params mappings, as sets of <<field, value>>
ParamsSet == { {}, {<<"project_id", "42">>} }

----------------------------------------------------------------------------
(* The domain modules main() registers first *)

\* the repository tools, in the order registerRepositoryTools registers them
registerRepositoryTools == <<
  [name    |-> Chars("search_repositories"),
   config  |->
     [title       |-> Chars("Search Repositories"),
      description |-> Chars("Search for GitLab projects"),
      inputSchema |-> Obj(<<
        Field("search", Describe(ZString, "Search query")),
        Field("page",
              Describe(ZOptional(ZNumber), "Page number for pagination")),
        Field("per_page",
              Describe(ZOptional(ZNumber), "Number of results per page")) >>)],
   handler |-> [fn |-> "search_repositories"]],
  [name    |-> Chars("get_file_contents"),
   config  |->
     [title       |-> Chars("Get File Contents"),
      description |->
        Chars("Get the contents of a file or directory from a GitLab "
              \o "project"),
      inputSchema |-> Obj(<<
        Field("project_id",
              Describe(ZString, "Project ID or URL-encoded path")),
        Field("file_path",
              Describe(ZString, "Path to the file in the repository")),
        Field("ref",
              Describe(ZOptional(ZString), "Branch, tag, or commit SHA")) >>)],
   handler |-> [fn |-> "get_file_contents"]],
  [name    |-> Chars("create_repository"),
   config  |->
     [title       |-> Chars("Create Repository"),
      description |-> Chars("Create a new GitLab project"),
      inputSchema |-> Obj(<<
        Field("name", Describe(ZString, "Name of the new project")),
        Field("description",
              Describe(ZOptional(ZString), "Project description")),
        Field("visibility",
              Describe(ZOptional(ZEnum(<<"private", "internal",
                "public">>)), "Project visibility")),
        Field("initialize_with_readme",
              Describe(ZOptional(ZBoolean), "Initialize with README")),
        Field("namespace_id",
              Describe(ZOptional(ZNumber), "Namespace ID for the project")) >>)],
   handler |-> [fn |-> "create_repository"]],
  [name    |-> Chars("fork_repository"),
   config  |->
     [title       |-> Chars("Fork Repository"),
      description |->
        Chars("Fork a GitLab project to your account or specified "
              \o "namespace"),
      inputSchema |-> Obj(<<
        Field("project_id",
              Describe(ZString, "Project ID or URL-encoded path to fork")),
        Field("namespace_id",
              Describe(ZOptional(ZNumber), "Target namespace ID")),
        Field("name", Describe(ZOptional(ZString), "New project name")),
        Field("path", Describe(ZOptional(ZString), "New project path")) >>)],
   handler |-> [fn |-> "fork_repository"]],
  [name    |-> Chars("create_branch"),
   config  |->
     [title       |-> Chars("Create Branch"),
      description |-> Chars("Create a new branch in a GitLab project"),
      inputSchema |-> Obj(<<
        Field("project_id",
              Describe(ZString, "Project ID or URL-encoded path")),
        Field("branch", Describe(ZString, "Name of the new branch")),
        Field("ref", Describe(ZString, "Source branch or commit SHA")) >>)],
   handler |-> [fn |-> "create_branch"]],
  [name    |-> Chars("get_repository_tree"),
   config  |->
     [title       |-> Chars("Get Repository Tree"),
      description |->
        Chars("Get the repository tree for a GitLab project (list files "
              \o "and directories)"),
      inputSchema |-> Obj(<<
        Field("project_id",
              Describe(ZString, "Project ID or URL-encoded path")),
        Field("path",
              Describe(ZOptional(ZString), "Path inside repository")),
        Field("ref",
              Describe(ZOptional(ZString), "Branch, tag, or commit SHA")),
        Field("recursive",
              Describe(ZOptional(ZBoolean), "Get tree recursively")),
        Field("page", Describe(ZOptional(ZNumber), "Page number")),
        Field("per_page", Describe(ZOptional(ZNumber), "Results per page")) >>)],
   handler |-> [fn |-> "get_repository_tree"]],
  [name    |-> Chars("create_or_update_file"),
   config  |->
     [title       |-> Chars("Create or Update File"),
      description |->
        Chars("Create or update a single file in a GitLab "
              \o "project"),
      inputSchema |-> Obj(<<
        Field("project_id",
              Describe(ZString, "Project ID or URL-encoded path")),
        Field("file_path", Describe(ZString, "Path to the file")),
        Field("branch", Describe(ZString, "Target branch")),
        Field("content", Describe(ZString, "File content")),
        Field("commit_message", Describe(ZString, "Commit message")),
        Field("author_email", Describe(ZOptional(ZString), "Author email")),
        Field("author_name", Describe(ZOptional(ZString), "Author name")) >>)],
   handler |-> [fn |-> "create_or_update_file"]],
  [name    |-> Chars("push_files"),
   config  |->
     [title       |-> Chars("Push Files"),
      description |->
        Chars("Push multiple files to a GitLab project in a single "
              \o "commit"),
      inputSchema |-> Obj(<<
        Field("project_id",
              Describe(ZString, "Project ID or URL-encoded path")),
        Field("branch", Describe(ZString, "Target branch")),
        Field("commit_message", Describe(ZString, "Commit message")),
        Field("files",
              Describe(ZArray(ZObject(<<Field("file_path", ZString),
                Field("content", ZString), Field("action",
                ZOptional(ZEnum(<<"create", "update", "delete">>)))>>)),
                "Files to push")),
        Field("start_branch",
              Describe(ZOptional(ZString),
                "Source branch if creating new branch")) >>)],
   handler |-> [fn |-> "push_files"]],
  [name    |-> Chars("get_branch_diffs"),
   config  |->
     [title       |-> Chars("Get Branch Diffs"),
      description |->
        Chars("Get the changes/diffs between two branches or commits in a "
              \o "GitLab project"),
      inputSchema |-> Obj(<<
        Field("project_id",
              Describe(ZString, "Project ID or URL-encoded path")),
        Field("from", Describe(ZString, "Source branch or commit")),
        Field("to", Describe(ZString, "Target branch or commit")),
        Field("straight",
              Describe(ZOptional(ZBoolean), "Use straight comparison")) >>)],
   handler |-> [fn |-> "get_branch_diffs"]] >>

\* the merge request tools, in the order registerMergeRequestTools registers
\* them
registerMergeRequestTools == <<
  [name    |-> Chars("get_merge_request"),
   config  |->
     [title       |-> Chars("Get Merge Request"),
      description |-> Chars("Get details of a merge request"),
      inputSchema |-> Obj(<<
        Field("project_id",
              Describe(ZString, "Project ID or URL-encoded path")),
        Field("merge_request_iid",
              Describe(ZOptional(ZNumber), "Merge request IID")),
        Field("branch_name",
              Describe(ZOptional(ZString), "Branch name to find MR")) >>)],
   handler |-> [fn |-> "get_merge_request"]],
  [name    |-> Chars("list_merge_requests"),
   config  |->
     [title       |-> Chars("List Merge Requests"),
      description |->
        Chars("List merge requests in a GitLab project with filtering "
              \o "options"),
      inputSchema |-> Obj(<<
        Field("project_id",
              Describe(ZString, "Project ID or URL-encoded path")),
        Field("state",
              Describe(ZOptional(ZEnum(<<"opened", "closed", "merged",
                "all">>)), "MR state filter")),
        Field("scope",
              Describe(ZOptional(ZEnum(<<"created_by_me", "assigned_to_me",
                "all">>)), "Scope")),
        Field("page", Describe(ZOptional(ZNumber), "Page number")),
        Field("per_page", Describe(ZOptional(ZNumber), "Results per page")) >>)],
   handler |-> [fn |-> "list_merge_requests"]],
  [name    |-> Chars("create_merge_request"),
   config  |->
     [title       |-> Chars("Create Merge Request"),
      description |-> Chars("Create a new merge request in a GitLab project"),
      inputSchema |-> Obj(<<
        Field("project_id",
              Describe(ZString, "Project ID or URL-encoded path")),
        Field("source_branch", Describe(ZString, "Source branch")),
        Field("target_branch", Describe(ZString, "Target branch")),
        Field("title", Describe(ZString, "MR title")),
        Field("description", Describe(ZOptional(ZString), "MR description")),
        Field("assignee_id",
              Describe(ZOptional(ZNumber), "Assignee user ID")),
        Field("reviewer_ids",
              Describe(ZOptional(ZArray(ZNumber)), "Reviewer user IDs")),
        Field("labels",
              Describe(ZOptional(ZString), "Comma-separated labels")),
        Field("remove_source_branch",
              Describe(ZOptional(ZBoolean),
                "Remove source branch after merge")),
        Field("squash",
              Describe(ZOptional(ZBoolean), "Squash commits on merge")),
        Field("draft", Describe(ZOptional(ZBoolean), "Create as draft MR")) >>)],
   handler |-> [fn |-> "create_merge_request"]],
  [name    |-> Chars("update_merge_request"),
   config  |->
     [title       |-> Chars("Update Merge Request"),
      description |-> Chars("Update a merge request"),
      inputSchema |-> Obj(<<
        Field("project_id",
              Describe(ZString, "Project ID or URL-encoded path")),
        Field("merge_request_iid", Describe(ZNumber, "Merge request IID")),
        Field("title", Describe(ZOptional(ZString), "New title")),
        Field("description",
              Describe(ZOptional(ZString), "New description")),
        Field("state_event",
              Describe(ZOptional(ZEnum(<<"close", "reopen">>)),
                "State change")),
        Field("assignee_id",
              Describe(ZOptional(ZNumber), "Assignee user ID")),
        Field("labels",
              Describe(ZOptional(ZString), "Comma-separated labels")),
        Field("target_branch",
              Describe(ZOptional(ZString), "Target branch")),
        Field("remove_source_branch",
              Describe(ZOptional(ZBoolean),
                "Remove source branch after merge")),
        Field("squash",
              Describe(ZOptional(ZBoolean), "Squash commits on merge")) >>)],
   handler |-> [fn |-> "update_merge_request"]],
  [name    |-> Chars("merge_merge_request"),
   config  |->
     [title       |-> Chars("Merge Merge Request"),
      description |-> Chars("Merge a merge request in a GitLab project"),
      inputSchema |-> Obj(<<
        Field("project_id",
              Describe(ZString, "Project ID or URL-encoded path")),
        Field("merge_request_iid", Describe(ZNumber, "Merge request IID")),
        Field("merge_commit_message",
              Describe(ZOptional(ZString), "Custom merge commit message")),
        Field("squash_commit_message",
              Describe(ZOptional(ZString), "Custom squash commit message")),
        Field("squash", Describe(ZOptional(ZBoolean), "Squash commits")),
        Field("should_remove_source_branch",
              Describe(ZOptional(ZBoolean), "Remove source branch")),
        Field("merge_when_pipeline_succeeds",
              Describe(ZOptional(ZBoolean), "Merge when pipeline succeeds")),
        Field("sha", Describe(ZOptional(ZString), "Expected HEAD SHA")) >>)],
   handler |-> [fn |-> "merge_merge_request"]],
  [name    |-> Chars("get_merge_request_diffs"),
   config  |->
     [title       |-> Chars("Get Merge Request Diffs"),
      description |-> Chars("Get the changes/diffs of a merge request"),
      inputSchema |-> Obj(<<
        Field("project_id",
              Describe(ZString, "Project ID or URL-encoded path")),
        Field("merge_request_iid", Describe(ZNumber, "Merge request IID")),
        Field("page", Describe(ZOptional(ZNumber), "Page number")),
        Field("per_page", Describe(ZOptional(ZNumber), "Results per page")) >>)],
   handler |-> [fn |-> "get_merge_request_diffs"]],
  [name    |-> Chars("mr_discussions"),
   config  |->
     [title       |-> Chars("List MR Discussions"),
      description |-> Chars("List discussion items for a merge request"),
      inputSchema |-> Obj(<<
        Field("project_id",
              Describe(ZString, "Project ID or URL-encoded path")),
        Field("merge_request_iid", Describe(ZNumber, "Merge request IID")),
        Field("page", Describe(ZOptional(ZNumber), "Page number")),
        Field("per_page", Describe(ZOptional(ZNumber), "Results per page")) >>)],
   handler |-> [fn |-> "mr_discussions"]],
  [name    |-> Chars("create_merge_request_thread"),
   config  |->
     [title       |-> Chars("Create MR Thread"),
      description |-> Chars("Create a new thread on a merge request"),
      inputSchema |-> Obj(<<
        Field("project_id",
              Describe(ZString, "Project ID or URL-encoded path")),
        Field("merge_request_iid", Describe(ZNumber, "Merge request IID")),
        Field("body", Describe(ZString, "Thread body")),
        Field("position",
              Describe(ZOptional(ZObject(<<Field("base_sha", ZString),
                Field("start_sha", ZString), Field("head_sha", ZString),
                Field("position_type", ZEnum(<<"text", "image">>)),
                Field("new_path", ZOptional(ZString)), Field("old_path",
                ZOptional(ZString)), Field("new_line", ZOptional(ZNumber)),
                Field("old_line", ZOptional(ZNumber))>>)),
                "Position for diff comment")) >>)],
   handler |-> [fn |-> "create_merge_request_thread"]],
  [name    |-> Chars("resolve_merge_request_thread"),
   config  |->
     [title       |-> Chars("Resolve MR Thread"),
      description |-> Chars("Resolve a thread on a merge request"),
      inputSchema |-> Obj(<<
        Field("project_id",
              Describe(ZString, "Project ID or URL-encoded path")),
        Field("merge_request_iid", Describe(ZNumber, "Merge request IID")),
        Field("discussion_id", Describe(ZString, "Discussion ID")),
        Field("resolved", Describe(ZBoolean, "Resolve or unresolve")) >>)],
   handler |-> [fn |-> "resolve_merge_request_thread"]],
  [name    |-> Chars("create_merge_request_note"),
   config  |->
     [title       |-> Chars("Create MR Note"),
      description |-> Chars("Add a new note to a merge request"),
      inputSchema |-> Obj(<<
        Field("project_id",
              Describe(ZString, "Project ID or URL-encoded path")),
        Field("merge_request_iid", Describe(ZNumber, "Merge request IID")),
        Field("body", Describe(ZString, "Note body")) >>)],
   handler |-> [fn |-> "create_merge_request_note"]],
  [name    |-> Chars("update_merge_request_note"),
   config  |->
     [title       |-> Chars("Update MR Note"),
      description |-> Chars("Modify an existing merge request note"),
      inputSchema |-> Obj(<<
        Field("project_id",
              Describe(ZString, "Project ID or URL-encoded path")),
        Field("merge_request_iid", Describe(ZNumber, "Merge request IID")),
        Field("note_id", Describe(ZNumber, "Note ID")),
        Field("body", Describe(ZString, "New note body")) >>)],
   handler |-> [fn |-> "update_merge_request_note"]],
  [name    |-> Chars("delete_merge_request_note"),
   config  |->
     [title       |-> Chars("Delete MR Note"),
      description |-> Chars("Delete an existing merge request note"),
      inputSchema |-> Obj(<<
        Field("project_id",
              Describe(ZString, "Project ID or URL-encoded path")),
        Field("merge_request_iid", Describe(ZNumber, "Merge request IID")),
        Field("note_id", Describe(ZNumber, "Note ID")) >>)],
   handler |-> [fn |-> "delete_merge_request_note"]],
  [name    |-> Chars("get_merge_request_notes"),
   config  |->
     [title       |-> Chars("Get MR Notes"),
      description |-> Chars("List notes for a merge request"),
      inputSchema |-> Obj(<<
        Field("project_id",
              Describe(ZString, "Project ID or URL-encoded path")),
        Field("merge_request_iid", Describe(ZNumber, "Merge request IID")),
        Field("page", Describe(ZOptional(ZNumber), "Page number")),
        Field("per_page", Describe(ZOptional(ZNumber), "Results per page")) >>)],
   handler |-> [fn |-> "get_merge_request_notes"]] >>

\* the issue tools, in the order registerIssueTools registers them
registerIssueTools == <<
  [name    |-> Chars("create_issue"),
   config  |->
     [title       |-> Chars("Create Issue"),
      description |-> Chars("Create a new issue in a GitLab project"),
      inputSchema |-> Obj(<<
        Field("project_id",
              Describe(ZString, "Project ID or URL-encoded path")),
        Field("title", Describe(ZString, "Issue title")),
        Field("description",
              Describe(ZOptional(ZString), "Issue description")),
        Field("assignee_ids",
              Describe(ZOptional(ZArray(ZNumber)), "Assignee user IDs")),
        Field("labels",
              Describe(ZOptional(ZString), "Comma-separated labels")),
        Field("milestone_id", Describe(ZOptional(ZNumber), "Milestone ID")),
        Field("due_date",
              Describe(ZOptional(ZString), "Due date (YYYY-MM-DD)")),
        Field("confidential",
              Describe(ZOptional(ZBoolean), "Mark as confidential")) >>)],
   handler |-> [fn |-> "create_issue"]],
  [name    |-> Chars("list_issues"),
   config  |->
     [title       |-> Chars("List Issues"),
      description |-> Chars("List issues in a GitLab project"),
      inputSchema |-> Obj(<<
        Field("project_id",
              Describe(ZString, "Project ID or URL-encoded path")),
        Field("state",
              Describe(ZOptional(ZEnum(<<"opened", "closed", "all">>)),
                "Issue state filter")),
        Field("scope",
              Describe(ZOptional(ZEnum(<<"created_by_me", "assigned_to_me",
                "all">>)), "Scope")),
        Field("labels",
              Describe(ZOptional(ZString), "Comma-separated labels filter")),
        Field("milestone", Describe(ZOptional(ZString), "Milestone title")),
        Field("search",
              Describe(ZOptional(ZString),
                "Search in title and description")),
        Field("page", Describe(ZOptional(ZNumber), "Page number")),
        Field("per_page", Describe(ZOptional(ZNumber), "Results per page")) >>)],
   handler |-> [fn |-> "list_issues"]],
  [name    |-> Chars("my_issues"),
   config  |->
     [title       |-> Chars("My Issues"),
      description |-> Chars("List issues assigned to the authenticated user"),
      inputSchema |-> Obj(<<
        Field("state",
              Describe(ZOptional(ZEnum(<<"opened", "closed", "all">>)),
                "Issue state filter")),
        Field("scope",
              Describe(ZOptional(ZEnum(<<"created_by_me", "assigned_to_me",
                "all">>)), "Scope")),
        Field("page", Describe(ZOptional(ZNumber), "Page number")),
        Field("per_page", Describe(ZOptional(ZNumber), "Results per page")) >>)],
   handler |-> [fn |-> "my_issues"]],
  [name    |-> Chars("get_issue"),
   config  |->
     [title       |-> Chars("Get Issue"),
      description |->
        Chars("Get details of a specific issue in a GitLab "
              \o "project"),
      inputSchema |-> Obj(<<
        Field("project_id",
              Describe(ZString, "Project ID or URL-encoded path")),
        Field("issue_iid", Describe(ZNumber, "Issue IID")) >>)],
   handler |-> [fn |-> "get_issue"]],
  [name    |-> Chars("update_issue"),
   config  |->
     [title       |-> Chars("Update Issue"),
      description |-> Chars("Update an issue in a GitLab project"),
      inputSchema |-> Obj(<<
        Field("project_id",
              Describe(ZString, "Project ID or URL-encoded path")),
        Field("issue_iid", Describe(ZNumber, "Issue IID")),
        Field("title", Describe(ZOptional(ZString), "New title")),
        Field("description",
              Describe(ZOptional(ZString), "New description")),
        Field("assignee_ids",
              Describe(ZOptional(ZArray(ZNumber)), "Assignee user IDs")),
        Field("labels",
              Describe(ZOptional(ZString), "Comma-separated labels")),
        Field("state_event",
              Describe(ZOptional(ZEnum(<<"close", "reopen">>)),
                "State change")),
        Field("due_date",
              Describe(ZOptional(ZString), "Due date (YYYY-MM-DD)")) >>)],
   handler |-> [fn |-> "update_issue"]],
  [name    |-> Chars("delete_issue"),
   config  |->
     [title       |-> Chars("Delete Issue"),
      description |-> Chars("Delete an issue from a GitLab project"),
      inputSchema |-> Obj(<<
        Field("project_id",
              Describe(ZString, "Project ID or URL-encoded path")),
        Field("issue_iid", Describe(ZNumber, "Issue IID")) >>)],
   handler |-> [fn |-> "delete_issue"]],
  [name    |-> Chars("list_issue_links"),
   config  |->
     [title       |-> Chars("List Issue Links"),
      description |-> Chars("List all issue links for a specific issue"),
      inputSchema |-> Obj(<<
        Field("project_id",
              Describe(ZString, "Project ID or URL-encoded path")),
        Field("issue_iid", Describe(ZNumber, "Issue IID")) >>)],
   handler |-> [fn |-> "list_issue_links"]],
  [name    |-> Chars("create_issue_link"),
   config  |->
     [title       |-> Chars("Create Issue Link"),
      description |-> Chars("Create an issue link between two issues"),
      inputSchema |-> Obj(<<
        Field("project_id",
              Describe(ZString, "Project ID or URL-encoded path")),
        Field("issue_iid", Describe(ZNumber, "Source issue IID")),
        Field("target_project_id", Describe(ZString, "Target project ID")),
        Field("target_issue_iid", Describe(ZNumber, "Target issue IID")),
        Field("link_type",
              Describe(ZOptional(ZEnum(<<"relates_to", "blocks",
                "is_blocked_by">>)), "Link type")) >>)],
   handler |-> [fn |-> "create_issue_link"]],
  [name    |-> Chars("delete_issue_link"),
   config  |->
     [title       |-> Chars("Delete Issue Link"),
      description |-> Chars("Delete an issue link"),
      inputSchema |-> Obj(<<
        Field("project_id",
              Describe(ZString, "Project ID or URL-encoded path")),
        Field("issue_iid", Describe(ZNumber, "Issue IID")),
        Field("issue_link_id", Describe(ZNumber, "Issue link ID")) >>)],
   handler |-> [fn |-> "delete_issue_link"]],
  [name    |-> Chars("list_issue_discussions"),
   config  |->
     [title       |-> Chars("List Issue Discussions"),
      description |->
        Chars("List discussions for an issue in a GitLab "
              \o "project"),
      inputSchema |-> Obj(<<
        Field("project_id",
              Describe(ZString, "Project ID or URL-encoded path")),
        Field("issue_iid", Describe(ZNumber, "Issue IID")),
        Field("page", Describe(ZOptional(ZNumber), "Page number")),
        Field("per_page", Describe(ZOptional(ZNumber), "Results per page")) >>)],
   handler |-> [fn |-> "list_issue_discussions"]],
  [name    |-> Chars("create_issue_note"),
   config  |->
     [title       |-> Chars("Create Issue Note"),
      description |-> Chars("Add a new note to an existing issue"),
      inputSchema |-> Obj(<<
        Field("project_id",
              Describe(ZString, "Project ID or URL-encoded path")),
        Field("issue_iid", Describe(ZNumber, "Issue IID")),
        Field("body", Describe(ZString, "Note body")) >>)],
   handler |-> [fn |-> "create_issue_note"]],
  [name    |-> Chars("update_issue_note"),
   config  |->
     [title       |-> Chars("Update Issue Note"),
      description |-> Chars("Modify an existing issue note"),
      inputSchema |-> Obj(<<
        Field("project_id",
              Describe(ZString, "Project ID or URL-encoded path")),
        Field("issue_iid", Describe(ZNumber, "Issue IID")),
        Field("note_id", Describe(ZNumber, "Note ID")),
        Field("body", Describe(ZString, "New note body")) >>)],
   handler |-> [fn |-> "update_issue_note"]] >>

\* the tools of the project module, in registration order
registerProjectTools == <<
  [name    |-> Chars("get_project"),
   config  |->
     [title       |-> Chars("Get Project"),
      description |-> Chars("Get details of a specific project"),
      inputSchema |-> Obj(<<
        Field("project_id",
              Describe(ZString, "Project ID or URL-encoded path")),
        Field("license",
              Describe(ZOptional(ZBoolean), "Include license info")),
        Field("statistics",
              Describe(ZOptional(ZBoolean), "Include project statistics")),
        Field("with_custom_attributes",
              Describe(ZOptional(ZBoolean), "Include custom attributes")) >>)],
   handler |-> [fn |-> "get_project"]],
  [name    |-> Chars("list_projects"),
   config  |->
     [title       |-> Chars("List Projects"),
      description |-> Chars("List projects accessible by the current user"),
      inputSchema |-> Obj(<<
        Field("search", Describe(ZOptional(ZString), "Search query")),
        Field("visibility",
              Describe(ZOptional(ZEnum(<<"public", "internal", "private">>)), "Visibility")),
        Field("owned", Describe(ZOptional(ZBoolean), "Only owned projects")),
        Field("membership",
              Describe(ZOptional(ZBoolean), "Only member projects")),
        Field("starred",
              Describe(ZOptional(ZBoolean), "Only starred projects")),
        Field("archived",
              Describe(ZOptional(ZBoolean), "Include archived projects")),
        Field("order_by",
              ZOptional(ZEnum(<<"id", "name", "path", "created_at", "updated_at", "last_activity_at">>))),
        Field("sort",
              Describe(ZOptional(ZEnum(<<"asc", "desc">>)), "Sort direction")),
        Field("page", Describe(ZOptional(ZNumber), "Page number")),
        Field("per_page", Describe(ZOptional(ZNumber), "Results per page")) >>)],
   handler |-> [fn |-> "list_projects"]],
  [name    |-> Chars("list_project_members"),
   config  |->
     [title       |-> Chars("List Project Members"),
      description |-> Chars("List members of a GitLab project"),
      inputSchema |-> Obj(<<
        Field("project_id",
              Describe(ZString, "Project ID or URL-encoded path")),
        Field("query", Describe(ZOptional(ZString), "Search query")),
        Field("page", Describe(ZOptional(ZNumber), "Page number")),
        Field("per_page", Describe(ZOptional(ZNumber), "Results per page")) >>)],
   handler |-> [fn |-> "list_project_members"]],
  [name    |-> Chars("list_labels"),
   config  |->
     [title       |-> Chars("List Labels"),
      description |-> Chars("List labels for a project"),
      inputSchema |-> Obj(<<
        Field("project_id",
              Describe(ZString, "Project ID or URL-encoded path")),
        Field("search", Describe(ZOptional(ZString), "Search query")),
        Field("page", Describe(ZOptional(ZNumber), "Page number")),
        Field("per_page", Describe(ZOptional(ZNumber), "Results per page")) >>)],
   handler |-> [fn |-> "list_labels"]],
  [name    |-> Chars("get_label"),
   config  |->
     [title       |-> Chars("Get Label"),
      description |-> Chars("Get a single label from a project"),
      inputSchema |-> Obj(<<
        Field("project_id",
              Describe(ZString, "Project ID or URL-encoded path")),
        Field("label_id",
              Describe(ZUnion(<<ZString, ZNumber>>), "Label ID or name")) >>)],
   handler |-> [fn |-> "get_label"]],
  [name    |-> Chars("create_label"),
   config  |->
     [title       |-> Chars("Create Label"),
      description |-> Chars("Create a new label in a project"),
      inputSchema |-> Obj(<<
        Field("project_id",
              Describe(ZString, "Project ID or URL-encoded path")),
        Field("name", Describe(ZString, "Label name")),
        Field("color", Describe(ZString, "Label color (hex format)")),
        Field("description",
              Describe(ZOptional(ZString), "Label description")),
        Field("priority", Describe(ZOptional(ZNumber), "Label priority")) >>)],
   handler |-> [fn |-> "create_label"]],
  [name    |-> Chars("update_label"),
   config  |->
     [title       |-> Chars("Update Label"),
      description |-> Chars("Update an existing label in a project"),
      inputSchema |-> Obj(<<
        Field("project_id",
              Describe(ZString, "Project ID or URL-encoded path")),
        Field("label_id",
              Describe(ZUnion(<<ZString, ZNumber>>), "Label ID or name")),
        Field("new_name", Describe(ZOptional(ZString), "New label name")),
        Field("color", Describe(ZOptional(ZString), "New label color")),
        Field("description", Describe(ZOptional(ZString), "New description")),
        Field("priority", Describe(ZOptional(ZNumber), "New priority")) >>)],
   handler |-> [fn |-> "update_label"]],
  [name    |-> Chars("delete_label"),
   config  |->
     [title       |-> Chars("Delete Label"),
      description |-> Chars("Delete a label from a project"),
      inputSchema |-> Obj(<<
        Field("project_id",
              Describe(ZString, "Project ID or URL-encoded path")),
        Field("label_id",
              Describe(ZUnion(<<ZString, ZNumber>>), "Label ID or name")) >>)],
   handler |-> [fn |-> "delete_label"]],
  [name    |-> Chars("list_group_projects"),
   config  |->
     [title       |-> Chars("List Group Projects"),
      description |-> Chars("List projects in a GitLab group with filtering options"),
      inputSchema |-> Obj(<<
        Field("group_id", Describe(ZString, "Group ID or URL-encoded path")),
        Field("search", Describe(ZOptional(ZString), "Search query")),
        Field("visibility",
              Describe(ZOptional(ZEnum(<<"public", "internal", "private">>)), "Visibility")),
        Field("archived",
              Describe(ZOptional(ZBoolean), "Include archived projects")),
        Field("order_by",
              ZOptional(ZEnum(<<"id", "name", "path", "created_at", "updated_at", "last_activity_at">>))),
        Field("sort",
              Describe(ZOptional(ZEnum(<<"asc", "desc">>)), "Sort direction")),
        Field("page", Describe(ZOptional(ZNumber), "Page number")),
        Field("per_page", Describe(ZOptional(ZNumber), "Results per page")) >>)],
   handler |-> [fn |-> "list_group_projects"]] >>

\* the tools of the commit module, in registration order
registerCommitTools == <<
  [name    |-> Chars("list_commits"),
   config  |->
     [title       |-> Chars("List Commits"),
      description |-> Chars("List repository commits with filtering options"),
      inputSchema |-> Obj(<<
        Field("project_id",
              Describe(ZString, "Project ID or URL-encoded path")),
        Field("ref_name", Describe(ZOptional(ZString), "Branch or tag name")),
        Field("since",
              Describe(ZOptional(ZString), "Only commits after this date (ISO 8601)")),
        Field("until",
              Describe(ZOptional(ZString), "Only commits before this date (ISO 8601)")),
        Field("path",
              Describe(ZOptional(ZString), "File path to filter commits")),
        Field("author",
              Describe(ZOptional(ZString), "Filter by author email or name")),
        Field("page", Describe(ZOptional(ZNumber), "Page number")),
        Field("per_page", Describe(ZOptional(ZNumber), "Results per page")) >>)],
   handler |-> [fn |-> "list_commits"]],
  [name    |-> Chars("get_commit"),
   config  |->
     [title       |-> Chars("Get Commit"),
      description |-> Chars("Get details of a specific commit"),
      inputSchema |-> Obj(<<
        Field("project_id",
              Describe(ZString, "Project ID or URL-encoded path")),
        Field("sha", Describe(ZString, "Commit SHA")) >>)],
   handler |-> [fn |-> "get_commit"]],
  [name    |-> Chars("get_commit_diff"),
   config  |->
     [title       |-> Chars("Get Commit Diff"),
      description |-> Chars("Get changes/diffs of a specific commit"),
      inputSchema |-> Obj(<<
        Field("project_id",
              Describe(ZString, "Project ID or URL-encoded path")),
        Field("sha", Describe(ZString, "Commit SHA")),
        Field("page", Describe(ZOptional(ZNumber), "Page number")),
        Field("per_page", Describe(ZOptional(ZNumber), "Results per page")) >>)],
   handler |-> [fn |-> "get_commit_diff"]] >>

\* the tools of the namespace module, in registration order
registerNamespaceTools == <<
  [name    |-> Chars("list_namespaces"),
   config  |->
     [title       |-> Chars("List Namespaces"),
      description |-> Chars("List all namespaces available to the current user"),
      inputSchema |-> Obj(<<
        Field("search", Describe(ZOptional(ZString), "Search query")),
        Field("owned", Describe(ZOptional(ZBoolean), "Only owned namespaces")),
        Field("page", Describe(ZOptional(ZNumber), "Page number")),
        Field("per_page", Describe(ZOptional(ZNumber), "Results per page")) >>)],
   handler |-> [fn |-> "list_namespaces"]],
  [name    |-> Chars("get_namespace"),
   config  |->
     [title       |-> Chars("Get Namespace"),
      description |-> Chars("Get details of a namespace by ID or path"),
      inputSchema |-> Obj(<<
        Field("namespace_id",
              Describe(ZUnion(<<ZString, ZNumber>>), "Namespace ID or path")) >>)],
   handler |-> [fn |-> "get_namespace"]],
  [name    |-> Chars("verify_namespace"),
   config  |->
     [title       |-> Chars("Verify Namespace"),
      description |-> Chars("Verify if a namespace path exists"),
      inputSchema |-> Obj(<<
        Field("path", Describe(ZString, "Namespace path to verify")) >>)],
   handler |-> [fn |-> "verify_namespace"]] >>

\* the tools of the user module, in registration order
registerUserTools == <<
  [name    |-> Chars("get_users"),
   config  |->
     [title       |-> Chars("Get Users"),
      description |-> Chars("Get GitLab user details by usernames"),
      inputSchema |-> Obj(<<
        Field("usernames",
              Describe(ZArray(ZString), "List of usernames to look up")) >>)],
   handler |-> [fn |-> "get_users"]],
  [name    |-> Chars("get_user"),
   config  |->
     [title       |-> Chars("Get User"),
      description |-> Chars("Get details of a specific user by ID"),
      inputSchema |-> Obj(<<
        Field("user_id", Describe(ZNumber, "User ID")) >>)],
   handler |-> [fn |-> "get_user"]],
  [name    |-> Chars("search_users"),
   config  |->
     [title       |-> Chars("Search Users"),
      description |-> Chars("Search for GitLab users"),
      inputSchema |-> Obj(<<
        Field("search", Describe(ZString, "Search query")),
        Field("page", Describe(ZOptional(ZNumber), "Page number")),
        Field("per_page", Describe(ZOptional(ZNumber), "Results per page")) >>)],
   handler |-> [fn |-> "search_users"]] >>

\* the tools of the pipeline module, in registration order
registerPipelineTools == <<
  [name    |-> Chars("list_pipelines"),
   config  |->
     [title       |-> Chars("List Pipelines"),
      description |-> Chars("List pipelines in a GitLab project with filtering options"),
      inputSchema |-> Obj(<<
        Field("project_id",
              Describe(ZString, "Project ID or URL-encoded path")),
        Field("scope",
              ZOptional(ZEnum(<<"running", "pending", "finished", "branches", "tags">>))),
        Field("status",
              ZOptional(ZEnum(<<"created", "pending", "running", "success", "failed", "canceled", "skipped", "manual", "scheduled">>))),
        Field("ref", Describe(ZOptional(ZString), "Branch or tag name")),
        Field("sha", Describe(ZOptional(ZString), "Commit SHA")),
        Field("page", Describe(ZOptional(ZNumber), "Page number")),
        Field("per_page", Describe(ZOptional(ZNumber), "Results per page")) >>)],
   handler |-> [fn |-> "list_pipelines"]],
  [name    |-> Chars("get_pipeline"),
   config  |->
     [title       |-> Chars("Get Pipeline"),
      description |-> Chars("Get details of a specific pipeline in a GitLab project"),
      inputSchema |-> Obj(<<
        Field("project_id",
              Describe(ZString, "Project ID or URL-encoded path")),
        Field("pipeline_id", Describe(ZNumber, "Pipeline ID")) >>)],
   handler |-> [fn |-> "get_pipeline"]],
  [name    |-> Chars("create_pipeline"),
   config  |->
     [title       |-> Chars("Create Pipeline"),
      description |-> Chars("Create a new pipeline for a branch or tag"),
      inputSchema |-> Obj(<<
        Field("project_id",
              Describe(ZString, "Project ID or URL-encoded path")),
        Field("ref", Describe(ZString, "Branch or tag name")),
        Field("variables",
              Describe(ZOptional(ZArray(ZObject(<<Field("key", ZString), Field("value", ZString), Field("variable_type", ZOptional(ZEnum(<<"env_var", "file">>)))>>))), "Pipeline variables")) >>)],
   handler |-> [fn |-> "create_pipeline"]],
  [name    |-> Chars("retry_pipeline"),
   config  |->
     [title       |-> Chars("Retry Pipeline"),
      description |-> Chars("Retry a failed or canceled pipeline"),
      inputSchema |-> Obj(<<
        Field("project_id",
              Describe(ZString, "Project ID or URL-encoded path")),
        Field("pipeline_id", Describe(ZNumber, "Pipeline ID")) >>)],
   handler |-> [fn |-> "retry_pipeline"]],
  [name    |-> Chars("cancel_pipeline"),
   config  |->
     [title       |-> Chars("Cancel Pipeline"),
      description |-> Chars("Cancel a running pipeline"),
      inputSchema |-> Obj(<<
        Field("project_id",
              Describe(ZString, "Project ID or URL-encoded path")),
        Field("pipeline_id", Describe(ZNumber, "Pipeline ID")) >>)],
   handler |-> [fn |-> "cancel_pipeline"]],
  [name    |-> Chars("list_pipeline_jobs"),
   config  |->
     [title       |-> Chars("List Pipeline Jobs"),
      description |-> Chars("List all jobs in a specific pipeline"),
      inputSchema |-> Obj(<<
        Field("project_id",
              Describe(ZString, "Project ID or URL-encoded path")),
        Field("pipeline_id", Describe(ZNumber, "Pipeline ID")),
        Field("scope",
              ZOptional(ZEnum(<<"created", "pending", "running", "failed", "success", "canceled", "skipped", "manual">>))),
        Field("page", Describe(ZOptional(ZNumber), "Page number")),
        Field("per_page", Describe(ZOptional(ZNumber), "Results per page")) >>)],
   handler |-> [fn |-> "list_pipeline_jobs"]],
  [name    |-> Chars("get_pipeline_job_output"),
   config  |->
     [title       |-> Chars("Get Pipeline Job Output"),
      description |-> Chars("Get the output/trace of a GitLab pipeline job"),
      inputSchema |-> Obj(<<
        Field("project_id",
              Describe(ZString, "Project ID or URL-encoded path")),
        Field("job_id", Describe(ZNumber, "Job ID")) >>)],
   handler |-> [fn |-> "get_pipeline_job_output"]],
  [name    |-> Chars("play_pipeline_job"),
   config  |->
     [title       |-> Chars("Play Pipeline Job"),
      description |-> Chars("Run a manual pipeline job"),
      inputSchema |-> Obj(<<
        Field("project_id",
              Describe(ZString, "Project ID or URL-encoded path")),
        Field("job_id", Describe(ZNumber, "Job ID")),
        Field("job_variables_attributes",
              Describe(ZOptional(ZArray(ZObject(<<Field("key", ZString), Field("value", ZString)>>))), "Job variables")) >>)],
   handler |-> [fn |-> "play_pipeline_job"]],
  [name    |-> Chars("retry_pipeline_job"),
   config  |->
     [title       |-> Chars("Retry Pipeline Job"),
      description |-> Chars("Retry a failed or canceled pipeline job"),
      inputSchema |-> Obj(<<
        Field("project_id",
              Describe(ZString, "Project ID or URL-encoded path")),
        Field("job_id", Describe(ZNumber, "Job ID")) >>)],
   handler |-> [fn |-> "retry_pipeline_job"]],
  [name    |-> Chars("cancel_pipeline_job"),
   config  |->
     [title       |-> Chars("Cancel Pipeline Job"),
      description |-> Chars("Cancel a running pipeline job"),
      inputSchema |-> Obj(<<
        Field("project_id",
              Describe(ZString, "Project ID or URL-encoded path")),
        Field("job_id", Describe(ZNumber, "Job ID")) >>)],
   handler |-> [fn |-> "cancel_pipeline_job"]] >>

\* main(): each domain module registers through an adapter bound to its
\* category, repositories first
StartupModules ==
  << [category |-> Chars("repositories"), tools |-> registerRepositoryTools],
     [category |-> Chars("merge-requests"),
      tools    |-> registerMergeRequestTools],
     [category |-> Chars("issues"), tools |-> registerIssueTools] >>

RECURSIVE StartupCalls(_)
\* the registerTool calls of the modules from the i-th on, in order
StartupCalls(i) ==
  IF i > Len(StartupModules) THEN <<>>
  ELSE LET m == StartupModules[i] IN
         [j \in 1..Len(m.tools) |-> [category |-> m.category, tool |-> m.tools[j]]]
         \o StartupCalls(i + 1)

StartupTools == StartupCalls(1)

\* how many of the startup registrations are followed
MaxStartupRegs == 22

\* search terms put to the registry during startup
StartupQueries == { Chars("e"), Chars("MR"), Chars("merge"), Chars("_") }

----------------------------------------------------------------------------
(* Actions *)

\* no call has returned that the caller has not taken the result of
NoCall == [op |-> "none"]

\* the requests execute_tool can be serving at one time
Invocations == 1..MaxInflight

\* no execute_tool call is running for the request
Idle == [pc |-> "idle"]

\* the server has a tool registered under the name
IsAdvertised(name) == \E i \in 1..Len(serverTools) : serverTools[i] = name

Init ==
  /\ tools = <<>>
  /\ categories = initCategories
  /\ toolsByCategory = initToolsByCategory
  /\ regCount = 0
  /\ serverTools = <<>>
  /\ last = NoCall
  /\ main = [pc |-> "start"]
  /\ inFlight = [id \in Invocations |-> Idle]
  /\ registryInstance = Null
  /\ constructed = 0
  /\ fileCall = Idle
  /\ requests = <<>>
  /\ streamableTransports = <<>>
  /\ transports = <<>>

\* ToolRegistry.registerTool
RegisterTool(name, category, def) ==
  LET info == ToolInfo(name, category, def.title, def.description,
                       def.inputSchema, def.outputSchema)
  IN /\ last = NoCall
     /\ tools' = registerTool_tools(name, info, def.handler)
     /\ toolsByCategory' = registerTool_toolsByCategory(name, category)
     /\ categories' = registerTool_categories(category)
     /\ regCount' = regCount + 1
     /\ last' = [op |-> "registerTool", name |-> name, category |-> category,
                 info |-> info, handler |-> def.handler]
     /\ UNCHANGED <<serverTools, host>>

\* registerMetaTools: five server.registerTool calls; McpServer refuses a
\* name it has already
RegisterMetaTools ==
  /\ last = NoCall
  /\ \A i \in 1..Len(MetaToolNames) : ~IsAdvertised(MetaToolNames[i])
  /\ serverTools' = serverTools \o MetaToolNames
  /\ last' = [op |-> "registerMetaTools"]
  /\ UNCHANGED <<tools, categories, toolsByCategory, regCount, host>>

\* a list_categories request
ListCategories ==
  /\ last = NoCall
  /\ IsAdvertised("list_categories")
  /\ last' = [op |-> "list_categories", result |-> list_categories]
  /\ UNCHANGED <<tools, categories, toolsByCategory, regCount, serverTools, host>>

\* a list_tools request
ListTools(category) ==
  /\ last = NoCall
  /\ IsAdvertised("list_tools")
  /\ last' = [op |-> "list_tools", category |-> category,
              result |-> list_tools(category)]
  /\ UNCHANGED <<tools, categories, toolsByCategory, regCount, serverTools, host>>

\* a search_tools request
SearchTools(args) ==
  /\ last = NoCall
  /\ IsAdvertised("search_tools")
  /\ last' = [op |-> "search_tools", args |-> args,
              result |-> search_tools(args)]
  /\ UNCHANGED <<tools, categories, toolsByCategory, regCount, serverTools, host>>

\* an execute_tool request, through to the settling of the awaited handler
ExecuteTool(toolName, params) ==
  LET handler == getHandler(toolName) IN
  /\ last = NoCall
  /\ IsAdvertised("execute_tool")
  /\ IF handler = Null
     THEN last' = [op |-> "execute_tool", toolName |-> toolName,
                   params |-> params, invoked |-> <<>>, settled |-> Null,
                   outcome |-> [kind  |-> "return",
                                value |-> execute_tool_notFound(toolName)]]
     ELSE \E settled \in HandlerOutcomes(handler, params) :
            last' = [op |-> "execute_tool", toolName |-> toolName,
                     params |-> params,
                     invoked |-> <<[handler |-> handler, params |-> params]>>,
                     settled |-> settled,
                     outcome |-> execute_tool_settle(settled)]
  /\ UNCHANGED <<tools, categories, toolsByCategory, regCount, serverTools, host>>

\* the caller takes the result; the event loop is free for the next call
Return ==
  /\ last # NoCall
  /\ last' = NoCall
  /\ UNCHANGED <<tools, categories, toolsByCategory, regCount, serverTools, host>>

\* a get_tool_schema request
GetToolSchema(toolName) ==
  /\ last = NoCall
  /\ IsAdvertised("get_tool_schema")
  /\ last' = [op |-> "get_tool_schema", toolName |-> toolName,
              outcome |-> get_tool_schema(toolName)]
  /\ UNCHANGED <<tools, categories, toolsByCategory, regCount, serverTools, host>>

\* ToolRegistry.serializeSchema called on the registry
SerializeSchema(schema) ==
  /\ last = NoCall
  /\ last' = [op |-> "serializeSchema", schema |-> schema,
              outcome |-> serializeSchema(schema)]
  /\ UNCHANGED <<tools, categories, toolsByCategory, regCount, serverTools, host>>

\* RegistryAdapter.registerTool
RegistryAdapter_registerTool(category, name, config, handler) ==
  RegisterTool(name, category,
               [title        |-> config.title,
                description  |-> config.description,
                inputSchema  |-> Get(config, "inputSchema"),
                outputSchema |-> IF Nullish(Get(config, "outputSchema"))
                                 THEN <<>> ELSE config.outputSchema,
                handler      |-> handler])

\* main(): the next registerTool call of the domain modules
RegisterAtStartup ==
  /\ regCount < Len(StartupTools)
  /\ LET call == StartupTools[regCount + 1] IN
       RegistryAdapter_registerTool(call.category, call.tool.name,
                                    call.tool.config, call.tool.handler)

\* ToolRegistry.searchTools called on the registry; limit is DefaultLimit
\* when the caller leaves it out
SearchRegistry(query, limit) ==
  /\ last = NoCall
  /\ last' = [op |-> "searchTools", query |-> query, limit |-> limit,
              result |-> searchTools(query, limit)]
  /\ UNCHANGED <<tools, categories, toolsByCategory, regCount, serverTools, host>>

Next ==
  \/ /\ regCount < MaxRegs
     /\ \E name \in ToolNames, category \in RegCategories, def \in ToolDefs :
          RegisterTool(name, category, def)
  \/ RegisterMetaTools
  \/ ListCategories
  \/ \E category \in ListedCategories : ListTools(category)
  \/ \E args \in SearchArgs : SearchTools(args)
  \/ \E toolName \in ExecutedNames, params \in ParamsSet :
       ExecuteTool(toolName, params)
  \/ \E toolName \in ExecutedNames : GetToolSchema(toolName)
  \/ Return

Spec == Init /\ [][Next]_vars

\* domain modules registering through their adapters, and get_tool_schema
SchemaNext ==
  \/ /\ regCount < MaxRegs
     /\ \E category \in AdapterCategories, name \in ToolNames,
           config \in AdapterConfigs :
          RegistryAdapter_registerTool(category, name, config, [fn |-> "h1"])
  \/ RegisterMetaTools
  \/ \E toolName \in ExecutedNames : GetToolSchema(toolName)
  \/ Return

SchemaSpec == Init /\ [][SchemaNext]_vars

\* the introspector applied to schema mappings
IntrospectNext ==
  \/ \E schema \in SchemaMappings(MaxDepth) : SerializeSchema(schema)
  \/ Return

IntrospectSpec == Init /\ [][IntrospectNext]_vars

\* the registry while main() fills it
StartupNext ==
  \/ regCount < MaxStartupRegs /\ RegisterAtStartup
  \/ \E query \in StartupQueries, limit \in (1..MaxLimit) \cup {DefaultLimit} :
       SearchRegistry(query, limit)
  \/ Return

StartupSpec == Init /\ [][StartupNext]_vars

----------------------------------------------------------------------------
(* Vocabulary of the properties *)

IsErrorFlagged(result) == "isError" \in DOMAIN result /\ result.isError = TRUE

SeededNames == { categoryDefs[i].name : i \in 1..Len(categoryDefs) }

SeedIndex(c) == CHOOSE i \in 1..Len(categoryDefs) : categoryDefs[i].name = c

ToolCount(c) == MapGet(categories, c).toolCount

RegisteredNames == { tools[i].key : i \in 1..Len(tools) }

Range(s) == { s[i] : i \in 1..Len(s) }

\* q occurs in field when letter case is ignored
OccursIgnoringCase(field, q) ==
  \E i \in 0..(Len(field) - Len(q)) :
    \A j \in 1..Len(q) : ToLowerChar(field[i + j]) = ToLowerChar(q[j])

\* the score the ranking rule gives the tool registered under name
RuleScore(name, q) ==
  LET info == MapGet(tools, name).info IN
    (IF OccursIgnoringCase(name, q) THEN 3 ELSE 0)
  + (IF OccursIgnoringCase(info.title, q) THEN 2 ELSE 0)
  + (IF OccursIgnoringCase(info.description, q) THEN 1 ELSE 0)

Matching(q) == { n \in RegisteredNames : RuleScore(n, q) > 0 }

Min(a, b) == IF a < b THEN a ELSE b

----------------------------------------------------------------------------
(* C1: right after registerTool(name, category, ..., handler), hasTool(name) *)
(* is true, getHandler(name) is the handler just passed and                  *)
(* getToolSchema(name) is the descriptor just passed, whether or not the     *)
(* name was registered before: the stored entry is overwritten.              *)
C1_RegisterStoresEntry ==
  last.op = "registerTool" =>
    /\ hasTool(last.name)
    /\ getHandler(last.name) # Null
    /\ getHandler(last.name) = last.handler
    /\ getToolSchema(last.name) = last.info
    /\ Cardinality({i \in 1..Len(tools) : tools[i].key = last.name}) = 1

\* a name registered twice, the second time in another category
C1_Witness ==
  /\ last.op = "registerTool"
  /\ regCount = 2
  /\ Len(tools) = 1
  /\ last.category = pipelines
  /\ MapGet(toolsByCategory, issues) = <<last.name>>
  /\ getHandler(last.name) = last.handler

(* C2: when the handler of a registered operation throws or rejects with e, *)
(* execute_tool returns an error-flagged result whose text and structured   *)
(* error carry e's message (String(e) for a non-Error); nothing propagates. *)
C2_HandlerFailureContained ==
  (last.op = "execute_tool" /\ last.settled # Null
      /\ last.settled.kind = "reject") =>
    LET e   == last.settled.error
        msg == IF e.type = "Error" THEN e.message ELSE JsString(e)
    IN /\ last.outcome.kind = "return"
       /\ IsErrorFlagged(last.outcome.value)
       /\ last.outcome.value.structuredContent.error = msg
       /\ last.outcome.value.structuredContent.success = FALSE
       /\ Len(last.outcome.value.content) = 1
       /\ msg \in Range(last.outcome.value.content[1].text)

\* a handler that rejected with a value that is not an Error
C2_Witness ==
  /\ last.op = "execute_tool"
  /\ last.settled # Null
  /\ last.settled.kind = "reject"
  /\ last.settled.error.type = "undefined"
  /\ last.outcome.kind = "return"
  /\ last.outcome.value.structuredContent.error = "undefined"

(* C3: execute_tool with a name that is not registered returns an          *)
(* error-flagged result, invokes no handler and leaves the registry as it  *)
(* was.                                                                    *)
C3_UnknownNameNoEffect ==
  [][ (last'.op = "execute_tool" /\ ~hasTool(last'.toolName)) =>
        /\ last'.invoked = <<>>
        /\ last'.outcome.kind = "return"
        /\ IsErrorFlagged(last'.outcome.value)
        /\ registry' = registry ]_vars

\* an unknown name asked of a registry that holds handlers
C3_Witness ==
  /\ last.op = "execute_tool"
  /\ ~hasTool(last.toolName)
  /\ Len(tools) = 2
  /\ last.invoked = <<>>
  /\ IsErrorFlagged(last.outcome.value)

(* C4: execute_tool(toolName, params) for a registered name invokes the     *)
(* handler stored under toolName, once, with params, and returns what that  *)
(* handler resolves with, unmodified.                                       *)
C4_HandlerResultPassedThrough ==
  (last.op = "execute_tool" /\ hasTool(last.toolName)) =>
    /\ last.invoked = <<[handler |-> MapGet(tools, last.toolName).handler,
                         params  |-> last.params]>>
    /\ last.settled \in
         HandlerOutcomes(MapGet(tools, last.toolName).handler, last.params)
    /\ last.settled.kind = "resolve" =>
         last.outcome = [kind |-> "return", value |-> last.settled.value]

\* the handler of a re-registered name resolved with its own error flag
C4_Witness ==
  /\ last.op = "execute_tool"
  /\ hasTool(last.toolName)
  /\ regCount = 2
  /\ Len(tools) = 1
  /\ last.params # {}
  /\ last.settled.kind = "resolve"
  /\ IsErrorFlagged(last.settled.value)
  /\ last.outcome.value = last.settled.value

(* C5: listCategories() returns exactly the seeded categories whose       *)
(* toolCount is above 0, in seeding order, and nothing when no operation  *)
(* is registered.                                                         *)
C5_ListCategoriesNonEmptyInSeedOrder ==
  LET cats == listCategories IN
  /\ \A i \in 1..Len(cats) : cats[i].toolCount > 0
  /\ { cats[i].name : i \in 1..Len(cats) }
       = { c \in SeededNames : ToolCount(c) > 0 }
  /\ \A i \in 1..Len(cats) :
       /\ cats[i].toolCount = ToolCount(cats[i].name)
       /\ cats[i].description = categoryDefs[SeedIndex(cats[i].name)].description
  /\ \A i, j \in 1..Len(cats) :
       i < j => SeedIndex(cats[i].name) < SeedIndex(cats[j].name)
  /\ tools = <<>> => cats = <<>>
  /\ last.op = "list_categories" =>
       last.result.structuredContent.categories = cats

\* pipelines received its operation before issues did
C5_Witness ==
  /\ last.op = "list_categories"
  /\ Len(tools) = 2
  /\ tools[1].value.info.category = pipelines
  /\ tools[2].value.info.category = issues
  /\ NamesOf(last.result.structuredContent.categories) = <<issues, pipelines>>

(* C6: after registerTool(name, c, ...) with c outside the seeded category *)
(* set, name is in listTools(x) for no x, listCategories() and every       *)
(* toolCount are what they were, and hasTool, getHandler, getToolSchema    *)
(* and searchTools find the operation.                                     *)
C6_UnseededRegistrationUnlisted ==
  [][ \A name \in ToolNames :
        (regCount' # regCount /\ last'.name = name
            /\ last'.category \notin SeededNames) =>
          /\ \A x \in SeededNames \cup ListedCategories \cup RegCategories :
               name \notin Range(NamesOf(listTools(x)'))
          /\ listCategories' = listCategories
          /\ \A c \in SeededNames : ToolCount(c)' = ToolCount(c)
          /\ hasTool(name)'
          /\ getHandler(name)' = last'.handler
          /\ getToolSchema(name)' = last'.info
          /\ name \in Range(NamesOf(searchTools(name, DefaultLimit)')) ]_vars

(* C7 as stated: searchTools(q) returns an operation exactly when q occurs, *)
(* letter case ignored, in its name, title or description; the score is 3  *)
(* for the name plus 2 for the title plus 1 for the description, so 1..6;  *)
(* results come in non-increasing score.                                   *)
C7_SearchReturnsExactlyTheMatches ==
  (last.op = "searchTools" /\ last.limit = DefaultLimit) =>
    LET q == last.query  res == last.result IN
    /\ Range(NamesOf(res)) = Matching(q)
    /\ \A i \in 1..Len(tools) :
         searchScore(tools[i].key, tools[i].value.info, ToLowerCase(q))
           = RuleScore(tools[i].key, q)
    /\ \A i \in 1..Len(res) : RuleScore(res[i].name, q) \in 1..6
    /\ \A i, j \in 1..Len(res) :
         i < j => RuleScore(res[i].name, q) >= RuleScore(res[j].name, q)

(* C7: searchTools(q, limit), limit being 20 when left out, returns only   *)
(* operations in whose name, title or description q occurs, letter case    *)
(* ignored, each once and with its stored description, and all of them     *)
(* when no more than limit match; when more match it returns limit of them *)
(* and none left out scores above a returned one. The score is 3 for the   *)
(* name plus 2 for the title plus 1 for the description, so 1..6, and      *)
(* results come in non-increasing score.                                   *)
C7_SearchMatchesAndRanks ==
  last.op = "searchTools" =>
    LET q == last.query  res == last.result IN
    /\ Range(NamesOf(res)) \subseteq Matching(q)
    /\ Cardinality(Range(NamesOf(res))) = Len(res)
    /\ Cardinality(Matching(q)) <= last.limit =>
         Range(NamesOf(res)) = Matching(q)
    /\ Cardinality(Matching(q)) > last.limit =>
         /\ Len(res) = last.limit
         /\ \A n \in Matching(q) \ Range(NamesOf(res)) :
              \A i \in 1..Len(res) :
                RuleScore(n, q) <= RuleScore(res[i].name, q)
    /\ \A i \in 1..Len(tools) :
         searchScore(tools[i].key, tools[i].value.info, ToLowerCase(q))
           = RuleScore(tools[i].key, q)
    /\ \A i \in 1..Len(res) :
         /\ RuleScore(res[i].name, q) \in 1..6
         /\ res[i].description = MapGet(tools, res[i].name).info.description
    /\ \A i, j \in 1..Len(res) :
         i < j => RuleScore(res[i].name, q) >= RuleScore(res[j].name, q)

\* with the repository and merge request tools registered, "merge" finds
\* get_merge_request, which has it in all three fields, ahead of
\* mr_discussions, which has it in the description only
C7_Witness ==
  /\ last.op = "searchTools"
  /\ last.query = Chars("merge")
  /\ last.limit = DefaultLimit
  /\ \E i, j \in 1..Len(last.result) :
       /\ i < j
       /\ last.result[i].name = Chars("get_merge_request")
       /\ RuleScore(last.result[i].name, last.query) = 6
       /\ last.result[j].name = Chars("mr_discussions")
       /\ RuleScore(last.result[j].name, last.query) = 1

(* C8: searchTools(query, limit), limit being 20 when left out, returns    *)
(* min(limit, number of matching operations) results, and they are the     *)
(* first ones of the full ranking: nothing left out scores above a result. *)
C8_SearchTruncatesToLimit ==
  /\ last = NoCall =>
     \A q \in Queries, limit \in (0..MaxLimit) \cup {DefaultLimit} :
       LET res  == searchTools(q, limit)
           full == searchTools(q, Len(tools))
       IN /\ Len(res) <= limit
          /\ Len(res) = Min(limit, Cardinality(Matching(q)))
          /\ Len(full) = Cardinality(Matching(q))
          /\ res = SubSeq(full, 1, Len(res))
          /\ \A i \in 1..Len(res), j \in (Len(res) + 1)..Len(full) :
               RuleScore(full[j].name, q) <= RuleScore(res[i].name, q)
  /\ last.op = "search_tools" =>
       LET limit == IF "limit" \in DOMAIN last.args THEN last.args.limit
                    ELSE DefaultLimit
       IN /\ Len(last.result.structuredContent.tools) <= limit
          /\ last.result.structuredContent.tools
               = searchTools(last.args.query, limit)

\* two operations match and limit 1 keeps the higher-scoring, later
\* registered one
C8_Witness ==
  /\ last.op = "search_tools"
  /\ last.args = [query |-> <<"A">>, limit |-> 1]
  /\ Cardinality(Matching(<<"A">>)) = 2
  /\ RuleScore(tools[1].key, <<"A">>) < RuleScore(tools[2].key, <<"A">>)
  /\ NamesOf(last.result.structuredContent.tools) = <<tools[2].key>>

UpperOf ==
  [c \in {LowerChars[i] : i \in 1..Len(LowerChars)} |->
     UpperChars[CHOOSE i \in 1..Len(LowerChars) : LowerChars[i] = c]]

ToUpperChar(c) == IF c \in DOMAIN UpperOf THEN UpperOf[c] ELSE c

\* c in capitals and, for a category that operations are registered into,
\* c with one letter in capitals
CaseVariants(c) ==
  { [i \in 1..Len(c) |-> ToUpperChar(c[i])] }
  \cup IF c \in RegCategories
       THEN { [c EXCEPT ![k] = ToUpperChar(c[k])] : k \in 1..Len(c) }
       ELSE {}

\* names that are no seeded category in any letter case: "custom", "",
\* "issue"
UnseededProbes ==
  { x \in ListedCategories \cup RegCategories
            \cup { <<>>, <<"i","s","s","u","e">> } :
      ToLowerCase(x) \notin SeededNames }

(* C9: listTools(category) gives the same result for every letter case of  *)
(* a seeded category name, lists the {name, description} pairs in the      *)
(* order of registration, and is empty for a category that is not seeded.  *)
C9_ListingOf(c) ==
  LET listed == listTools(c) IN
  /\ \A v \in CaseVariants(c) : listTools(v) = listed
  /\ \A i \in 1..Len(listed) :
       /\ hasTool(listed[i].name)
       /\ listed[i].description = MapGet(tools, listed[i].name).info.description

C9_Listings ==
  /\ \A c \in SeededNames : C9_ListingOf(c)
  /\ \A x \in UnseededProbes : listTools(x) = <<>>

C9_ListToolsByCategory ==
  [][ /\ regCount = 0 => \A c \in SeededNames : listTools(c) = <<>>
      /\ regCount' = regCount => registry' = registry
      /\ regCount' # regCount =>
           /\ C9_Listings
           /\ C9_Listings'
           /\ \A c \in SeededNames :
                NamesOf(listTools(c)') =
                  IF c = last'.category
                  THEN Append(NamesOf(listTools(c)), last'.name)
                  ELSE NamesOf(listTools(c))
      /\ (last'.op = "list_tools" /\ ~IsErrorFlagged(last'.result)) =>
           \A x \in ListedCategories :
             last'.category = x =>
               last'.result.structuredContent.tools = listTools(x)' ]_vars

\* "ISSUES" lists the two operations of issues, first registered first
C9_Witness ==
  /\ last.op = "list_tools"
  /\ last.category = <<"I","S","S","U","E","S">>
  /\ Len(tools) = 2
  /\ \A i \in 1..2 : tools[i].value.info.category = issues
  /\ NamesOf(last.result.structuredContent.tools) = <<tools[1].key, tools[2].key>>

\* the names a text enumerates, separated by ", "
RECURSIVE SplitOnComma(_)
SplitOnComma(s) ==
  IF s = <<>> THEN <<>>
  ELSE IF \E i \in 1..(Len(s) - 1) : s[i] = "," /\ s[i + 1] = " "
  THEN LET i == CHOOSE k \in 1..(Len(s) - 1) :
                  /\ s[k] = "," /\ s[k + 1] = " "
                  /\ \A m \in 1..(k - 1) : ~(s[m] = "," /\ s[m + 1] = " ")
       IN <<SubSeq(s, 1, i - 1)>> \o SplitOnComma(SubSeq(s, i + 2, Len(s)))
  ELSE <<s>>

(* C10: list_tools(category) is error-flagged exactly when the registry   *)
(* lists no operation for the category (not seeded, or seeded and empty); *)
(* its text then enumerates the names listCategories() returns and its    *)
(* tools list is empty; otherwise it is not flagged and carries the tools. *)
C10_ListToolsErrorWhenEmpty ==
  last.op = "list_tools" =>
    LET r     == last.result
        key   == ToLowerCase(last.category)
        empty == key \notin SeededNames \/ MapGet(toolsByCategory, key) = <<>>
    IN /\ IsErrorFlagged(r) <=> empty
       /\ empty =>
            /\ r.structuredContent.tools = <<>>
            /\ SplitOnComma(r.content[1].text[4]) = NamesOf(listCategories)
       /\ ~empty =>
            /\ "isError" \notin DOMAIN r
            /\ Len(r.structuredContent.tools) > 0
            /\ r.structuredContent.tools = listTools(last.category)

\* "custom" asked while issues and pipelines hold one operation each
C10_Witness ==
  /\ last.op = "list_tools"
  /\ last.category = <<"c","u","s","t","o","m">>
  /\ IsErrorFlagged(last.result)
  /\ NamesOf(listCategories) = <<issues, pipelines>>
  /\ Len(last.result.content[1].text[4]) = Len(issues) + 2 + Len(pipelines)

(* C11: get_tool_schema(toolName) returns, without raising, an error-flagged *)
(* result when toolName is not registered; for a registered name it returns *)
(* a result that is not error-flagged and whose payload holds the name,     *)
(* title, description and category of the stored descriptor and, under      *)
(* the keys of the stored schema mappings, their serializeSchema forms.     *)
C11_GetToolSchemaReturnsDescriptor ==
  last.op = "get_tool_schema" =>
    /\ ~Raised(last.outcome)
    /\ IF ~hasTool(last.toolName)
       THEN IsErrorFlagged(last.outcome.value)
       ELSE LET stored  == MapGet(tools, last.toolName).info
                payload == last.outcome.value.structuredContent
            IN /\ ~IsErrorFlagged(last.outcome.value)
               /\ payload.name = stored.name
               /\ payload.title = stored.title
               /\ payload.description = stored.description
               /\ payload.category = stored.category
               /\ DOMAIN payload.inputSchema = DOMAIN stored.inputSchema
               /\ DOMAIN payload.outputSchema = DOMAIN stored.outputSchema
               /\ payload.inputSchema = serializeSchema(stored.inputSchema).value
               /\ payload.outputSchema = serializeSchema(stored.outputSchema).value

(* C12: the tools the server advertises are exactly list_categories,        *)
(* list_tools, search_tools, get_tool_schema and execute_tool: whenever the *)
(* server has tools at all, and so whenever it answers a request, it has    *)
(* these five, however many operations the registry received before or      *)
(* after registerMetaTools.                                                 *)
C12_AdvertisedToolsAreTheMetaTools ==
  /\ serverTools # <<>> \/ last.op \notin {"none", "registerTool"} =>
       /\ Len(serverTools) = 5
       /\ Range(serverTools) = {"list_categories", "list_tools", "search_tools",
                                "get_tool_schema", "execute_tool"}
  /\ \A i \in 1..Len(tools) : ~IsAdvertised(Concat(tools[i].key))

\* an operation registered once the meta-tools were wired, the registry
\* holding two
C12_Witness ==
  /\ last.op = "registerTool"
  /\ serverTools # <<>>
  /\ Len(tools) = 2
  /\ regCount = MaxRegs

(* C13: a registerTool(name, config, handler) call on the adapter bound to  *)
(* category c stores the operation under category c, and stores an empty    *)
(* mapping for the input schema and for the output schema that config       *)
(* leaves out.                                                              *)
C13_AdapterInjectsCategoryAndEmptySchemas ==
  [][ \A category \in AdapterCategories, name \in ToolNames,
         config \in AdapterConfigs :
        RegistryAdapter_registerTool(category, name, config, [fn |-> "h1"]) =>
          LET stored == MapGet(tools', name).info IN
          /\ stored.category = category
          /\ stored.inputSchema = IF "inputSchema" \in DOMAIN config
                                  THEN config.inputSchema ELSE Obj(<<>>)
          /\ stored.outputSchema = IF "outputSchema" \in DOMAIN config
                                   THEN config.outputSchema ELSE Obj(<<>>) ]_vars

\* the schema value has no definition the introspector can read
NoDefinition(zodType) == Nullish(Get(zodType, "_def"))

(* C14: serializeSchema raises no error, whatever the kinds of the schema   *)
(* values in the mapping (no definition, an unknown kind, no kind tag, a    *)
(* wrapper without inner schema, a default wrapper), and a value with no    *)
(* definition is described as {type: "unknown"}.                            *)
C14_IntrospectorNeverRaises ==
  last.op = "serializeSchema" =>
    /\ ~Raised(last.outcome)
    /\ \A key \in DOMAIN last.schema :
         NoDefinition(last.schema[key]) =>
           last.outcome.value[key] = [type |-> "unknown"]

(* C15: a string schema with minimum length m and maximum length n is       *)
(* described as exactly {type: "string", minLength: m, maxLength: n}, and   *)
(* an optional-wrapped enum of the literals L as exactly                    *)
(* {type: "string", enum: L, optional: true}.                               *)
C15_StringAndOptionalEnumDescriptors ==
  last.op = "serializeSchema" =>
    \A key \in DOMAIN last.schema :
      /\ \A m \in 1..MaxLength, n \in 1..MaxLength :
           last.schema[key] \in ZStringMinMax(m, n) =>
             /\ ~Raised(last.outcome)
             /\ last.outcome.value[key] =
                  [type |-> "string", minLength |-> m, maxLength |-> n]
      /\ \A values \in EnumLists :
           last.schema[key] = ZOptional(ZEnum(values)) =>
             /\ ~Raised(last.outcome)
             /\ last.outcome.value[key] =
                  [type |-> "string", enum |-> values, optional |-> TRUE]

\* {title: z.string().min(1).max(2),
\*  state: z.enum(["opened", "closed"]).optional()} has been introspected
C15_Witness ==
  /\ last.op = "serializeSchema"
  /\ DOMAIN last.schema = {"title", "state"}
  /\ last.schema.title \in ZStringMinMax(1, 2)
  /\ last.schema.state = ZOptional(ZEnum(<<"opened", "closed">>))
  /\ last.outcome =
       Returns([title |-> [type |-> "string", minLength |-> 1, maxLength |-> 2],
                state |-> [type |-> "string", enum |-> <<"opened", "closed">>,
                           optional |-> TRUE]])

(* C16: the result of search_tools is never error-flagged.  When no         *)
(* registered operation matches the query, it is a result with an empty     *)
(* tools list and the text advising another search term; when some match,   *)
(* its tools list is the ranking searchTools gives for the query and limit. *)
C16_SearchToolsNeverFlagged ==
  last.op = "search_tools" =>
    LET query  == last.args.query
        limit  == IF "limit" \in DOMAIN last.args THEN last.args.limit
                  ELSE DefaultLimit
        result == last.result
    IN /\ ~IsErrorFlagged(result)
       /\ "isError" \notin DOMAIN result
       /\ Matching(query) = {} =>
            /\ result.structuredContent.tools = <<>>
            /\ result.content =
                 TextContent(<<"No tools found matching '", query,
                   "'. Try a different search term or use list_categories to browse.">>)
       /\ Matching(query) # {} =>
            /\ result.structuredContent.tools # <<>>
            /\ result.structuredContent.tools = searchTools(query, limit)
            /\ result.content[1].text[1] = "Found "
            /\ result.content[1].text[2] = Len(searchTools(query, limit))

\* a search for "x" when the only registered operation has "x" nowhere
C16_Witness ==
  /\ last.op = "search_tools"
  /\ last.args.query = <<"x">>
  /\ Len(tools) = 1
  /\ Matching(<<"x">>) = {}
  /\ last.result.structuredContent.tools = <<>>
  /\ ~IsErrorFlagged(last.result)

\* in every full ranking, operations that score the same stand in the order
\* of the tools map
TiesInMapOrder ==
  \A q \in Queries :
    LET full == NamesOf(searchTools(q, Len(tools))) IN
    \A i \in 1..Len(full), j \in 1..Len(full) :
      (i < j /\ RuleScore(full[i], q) = RuleScore(full[j], q)) =>
        MapIndex(tools, full[i]) < MapIndex(tools, full[j])

(* C17: searchTools returns operations of equal score in the iteration      *)
(* order of the registry, which is the order in which the names were first  *)
(* registered: registering a name again leaves the order of the names as it *)
(* was, a new name goes to the end.                                         *)
C17_TiesKeepRegistrationOrder ==
  /\ [](last.op = "registerTool" => TiesInMapOrder)
  /\ [][ regCount' # regCount =>
          MapKeys(tools)' =
            IF MapHas(tools, last'.name) THEN MapKeys(tools)
            ELSE Append(MapKeys(tools), last'.name) ]_vars

\* the operation registered first has just been registered again; it ties
\* with the other one on "b" and is still returned first
C17_Witness ==
  /\ last.op = "registerTool"
  /\ regCount = 3
  /\ Len(tools) = 2
  /\ last.name = tools[1].key
  /\ RuleScore(tools[1].key, <<"b">>) = RuleScore(tools[2].key, <<"b">>)
  /\ RuleScore(tools[1].key, <<"b">>) > 0
  /\ NamesOf(searchTools(<<"b">>, DefaultLimit)) = <<tools[1].key, tools[2].key>>

\* the registered operations whose stored descriptor names category c
StoredUnder(c) == { n \in RegisteredNames : MapGet(tools, n).info.category = c }

(* C18: in every state reached by registerTool calls, calls that register   *)
(* a name again under the same or another category included, for every     *)
(* seeded category c listTools(c) lists exactly the registered operations   *)
(* whose stored descriptor has category c, each once, and toolCount(c) is   *)
(* their number.                                                            *)
C18_ListToolsMatchesStoredCategory ==
  \A c \in SeededNames :
    LET listed == NamesOf(listTools(c)) IN
    /\ Range(listed) = StoredUnder(c)
    /\ Len(listed) = Cardinality(StoredUnder(c))
    /\ ToolCount(c) = Cardinality(StoredUnder(c))

\* zodType is a wrapper of the kind named, v3 or v4 tag, that has an inner
\* schema and no description of its own
IsWrapper(zodType, v3Name, v4Name) ==
  /\ ~Nullish(Get(zodType, "_def"))
  /\ \/ "typeName" \in DOMAIN zodType._def /\ zodType._def.typeName = v3Name
     \/ /\ "typeName" \notin DOMAIN zodType._def
        /\ "type" \in DOMAIN zodType._def
        /\ zodType._def.type = [str |-> v4Name]
  /\ "description" \notin DOMAIN zodType._def
  /\ ~Nullish(Get(zodType._def, "innerType"))

\* the descriptor with flag: true added
WithFlag(descriptor, flag) ==
  [k \in DOMAIN descriptor \cup {flag} |->
     IF k = flag THEN TRUE ELSE descriptor[k]]

IsDefaultWrapper(zodType) ==
  /\ IsWrapper(zodType, "ZodDefault", "default")
  /\ ~Nullish(Get(zodType._def, "defaultValue"))

(* C20: the descriptor of a default wrapper around a schema S is the        *)
(* descriptor of S plus a default key that holds what the default-value     *)
(* provider returns when the provider is callable; a provider that is there *)
(* and is not callable is not invoked, the descriptor of S being returned   *)
(* all the same.                                                            *)
C20_DefaultWrapperInvokesCallableProvider ==
  last.op = "serializeSchema" =>
    \A key \in DOMAIN last.schema :
      LET zodType == last.schema[key] IN
      (IsDefaultWrapper(zodType)
         /\ ~Raised(zodToJsonSchema(zodType._def.innerType))) =>
        LET S        == zodToJsonSchema(zodType._def.innerType).value
            provider == zodType._def.defaultValue
        IN /\ ~Raised(last.outcome)
           /\ \A k \in DOMAIN S \ {"default"} : last.outcome.value[key][k] = S[k]
           /\ IsCallable(provider) =>
                /\ DOMAIN last.outcome.value[key] = DOMAIN S \cup {"default"}
                /\ last.outcome.value[key]["default"] = provider.call

----------------------------------------------------------------------------
(* main(): registration, then the transport *)

\* config.usePipeline
UsePipelineValues == BOOLEAN

\* config.transportMode
TransportModes == { "stdio", "sse", "streamable-http" }

\* the domain modules main() calls, in order; pipelines only when configured
MainModules(usePipeline) ==
  StartupModules
  \o << [category |-> Chars("projects"), tools |-> registerProjectTools],
        [category |-> Chars("commits"), tools |-> registerCommitTools],
        [category |-> Chars("namespaces"), tools |-> registerNamespaceTools],
        [category |-> Chars("users"), tools |-> registerUserTools] >>
  \o IF usePipeline
     THEN << [category |-> Chars("pipelines"),
              tools    |-> registerPipelineTools] >>
     ELSE << >>

RECURSIVE ModuleCalls(_, _)
\* the registerTool calls of the modules from the i-th on, in order
ModuleCalls(modules, i) ==
  IF i > Len(modules) THEN <<>>
  ELSE LET m == modules[i] IN
         [j \in 1..Len(m.tools) |-> [category |-> m.category, tool |-> m.tools[j]]]
         \o ModuleCalls(modules, i + 1)

\* every registerTool call main() makes before registerMetaTools
MainTools(usePipeline) == ModuleCalls(MainModules(usePipeline), 1)

\* registerMetaTools called as soon as the seven unconditional modules are
\* through, the optional pipelines module still to come
MainRegistrationDone_beforePipelines ==
  regCount >= Len(MainTools(FALSE))

\* main() has run through every register...Tools call of its configuration
MainRegistrationDone ==
  regCount = Len(MainTools(main.usePipeline))

\* main() up to the registry's construction
MainStart(usePipeline, transportMode) ==
  /\ main.pc = "start"
  /\ main' = [pc |-> "registering", usePipeline |-> usePipeline,
              transportMode |-> transportMode]
  /\ UNCHANGED <<tools, categories, toolsByCategory, regCount, serverTools,
                 last, hostButMain>>

\* main(): the next registerTool call of the domain modules
MainRegister ==
  /\ main.pc = "registering"
  /\ serverTools = <<>>
  /\ regCount < Len(MainTools(main.usePipeline))
  /\ LET call == MainTools(main.usePipeline)[regCount + 1] IN
       RegistryAdapter_registerTool(call.category, call.tool.name,
                                    call.tool.config, call.tool.handler)

\* main(): registerMetaTools(mcpServer, registry, logger)
MainRegisterMetaTools ==
  /\ main.pc = "registering"
  /\ MainRegistrationDone
  /\ RegisterMetaTools

\* main(): the transport is set up; an unsupported mode ends the process
MainConnect ==
  /\ main.pc = "registering"
  /\ last = NoCall
  /\ serverTools # <<>>
  /\ main' = [main EXCEPT !.pc =
                IF main.transportMode \in {"stdio", "streamable-http"}
                THEN "serving" ELSE "exited"]
  /\ UNCHANGED <<tools, categories, toolsByCategory, regCount, serverTools,
                 last, hostButMain>>

\* names asked of the meta-tools once the server is connected
MainExecutedNames ==
  { Chars("search_repositories"), Chars("search_users"),
    Chars("cancel_pipeline_job"), Chars("no_such_tool") }

\* categories asked of list_tools once the server is connected
MainListedCategories == { Chars("users"), Chars("pipelines"), Chars("wiki") }

\* search_tools arguments once the server is connected
MainSearchArgs ==
  { [query |-> Chars("pipeline")], [query |-> Chars("user"), limit |-> 1] }

\* a request of the agent, served over the connected transport
MainServe ==
  /\ main.pc = "serving"
  /\ \/ ListCategories
     \/ \E category \in MainListedCategories : ListTools(category)
     \/ \E args \in MainSearchArgs : SearchTools(args)
     \/ \E toolName \in MainExecutedNames : GetToolSchema(toolName)
     \/ \E toolName \in MainExecutedNames, params \in ParamsSet :
          ExecuteTool(toolName, params)

MainNext ==
  \/ \E usePipeline \in UsePipelineValues, transportMode \in TransportModes :
       MainStart(usePipeline, transportMode)
  \/ MainRegister
  \/ MainRegisterMetaTools
  \/ MainConnect
  \/ MainServe
  \/ Return

MainSpec == Init /\ [][MainNext]_vars

\* the operations an agent requests
RequestOps ==
  { "list_categories", "list_tools", "search_tools", "get_tool_schema",
    "execute_tool" }

\* the names main() registers under its configuration
MainToolNames ==
  { MainTools(main.usePipeline)[i].tool.name :
      i \in 1..Len(MainTools(main.usePipeline)) }

\* the registry holds every tool of the configured modules, each in the
\* list and the count of its module's category
RegistryComplete ==
  /\ RegisteredNames = MainToolNames
  /\ \A i \in 1..Len(MainModules(main.usePipeline)) :
       LET m == MainModules(main.usePipeline)[i] IN
         /\ MapGet(toolsByCategory, m.category)
              = [j \in 1..Len(m.tools) |-> m.tools[j].name]
         /\ ToolCount(m.category) = Len(m.tools)

\* C21: during startup every domain module's registration, the optional
\* pipelines module included, is complete before the meta-tools are
\* registered and before a transport is connected: the meta-tools are
\* advertised, the server serves and a request is answered only over the
\* complete registry, and from the moment the server serves no registerTool
\* call happens and the registry stays as it is.
C21_RegistrationPrecedesServing ==
  /\ [](/\ serverTools # <<>> => RegistryComplete
        /\ main.pc = "serving" => RegistryComplete /\ serverTools = MetaToolNames
        /\ last.op \in RequestOps => main.pc = "serving" /\ RegistryComplete)
  /\ [][main.pc = "serving" =>
          /\ regCount' = regCount
          /\ registry' = registry
          /\ last'.op # "registerTool"]_vars

\* a request is answered by a server started with the pipelines module
C21_Witness ==
  /\ main.pc = "serving"
  /\ main.usePipeline
  /\ last.op = "list_tools"
  /\ last.category = Chars("pipelines")
  /\ ~IsErrorFlagged(last.result)

----------------------------------------------------------------------------
(* execute_tool invocations in flight together *)

\* the registerTool calls made on the registry: "aB" is registered again
\* with another handler
ConcRegs ==
  << [name |-> <<"a","B">>, category |-> issues, handler |-> [fn |-> "h1"]],
     [name |-> <<"b">>, category |-> pipelines, handler |-> [fn |-> "h2"]],
     [name |-> <<"a","B">>, category |-> issues, handler |-> [fn |-> "h2"]] >>

\* the params mapping of a request, as a set of <<field, value>>
RequestParams(id) == { <<"request", id>> }

\* the ways a handler call of the model settles: a result, or an Error
ConcOutcomes(h, params) ==
  { o \in HandlerOutcomes(h, params) :
      \/ o.kind = "resolve" /\ ~IsErrorFlagged(o.value)
      \/ o.kind = "reject" /\ o.error.type = "Error" }

\* one variable outside the handler holds the awaited result of every
\* invocation
FrameOf_shared(id) == 1

\* handler, params and result are locals of the async handler: each
\* invocation has its own
FrameOf(id) == id

\* the next registerTool call on the registry
ConcRegister ==
  /\ regCount < Len(ConcRegs)
  /\ LET r == ConcRegs[regCount + 1] IN
       RegisterTool(r.name, r.category,
                    [title |-> r.name, description |-> r.name,
                     inputSchema |-> <<>>, outputSchema |-> <<>>,
                     handler |-> r.handler])

\* execute_tool up to its await: the handler is looked up and called, or the
\* not-found result is returned
ExecuteToolInvoke(id, toolName) ==
  LET handler == getHandler(toolName)
      params  == RequestParams(id)
  IN /\ last = NoCall
     /\ IsAdvertised("execute_tool")
     /\ inFlight[id] = Idle
     /\ inFlight' =
          [inFlight EXCEPT ![id] =
             IF handler = Null
             THEN [pc |-> "returned", toolName |-> toolName,
                   params |-> params, handler |-> Null, settled |-> Null,
                   outcome |-> [kind  |-> "return",
                                value |-> execute_tool_notFound(toolName)]]
             ELSE [pc |-> "pending", toolName |-> toolName,
                   params |-> params, handler |-> handler]]
     /\ UNCHANGED <<tools, categories, toolsByCategory, regCount,
                    serverTools, last, hostButInFlight>>

\* the promise of the handler call of an invocation settles
HandlerSettle(id) ==
  /\ inFlight[id].pc = "pending"
  /\ \E settled \in ConcOutcomes(inFlight[id].handler, inFlight[id].params) :
       inFlight' = [inFlight EXCEPT ![id] =
                      [pc |-> "settled", toolName |-> inFlight[id].toolName,
                       params |-> inFlight[id].params,
                       handler |-> inFlight[id].handler,
                       settled |-> settled]]
  /\ UNCHANGED <<tools, categories, toolsByCategory, regCount, serverTools,
                 last, hostButInFlight>>

\* execute_tool serialised: the continuation waits until no handler call of
\* any invocation is pending
ExecuteToolResume_afterAll(id) ==
  /\ inFlight[id].pc = "settled"
  /\ \A other \in Invocations : inFlight[other].pc # "pending"
  /\ inFlight' =
       [inFlight EXCEPT ![id] =
          [pc |-> "returned", toolName |-> inFlight[id].toolName,
           params |-> inFlight[id].params, handler |-> inFlight[id].handler,
           settled |-> inFlight[id].settled,
           outcome |-> execute_tool_settle(inFlight[id].settled)]]
  /\ UNCHANGED <<tools, categories, toolsByCategory, regCount, serverTools,
                 last, hostButInFlight>>

\* execute_tool from its await on: the result is returned, or the catch
\* block builds the error result
ExecuteToolResume(id) ==
  /\ inFlight[id].pc = "settled"
  /\ inFlight[FrameOf(id)].pc \in {"settled", "returned"}
  /\ inFlight[FrameOf(id)].settled # Null
  /\ inFlight' =
       [inFlight EXCEPT ![id] =
          [pc |-> "returned", toolName |-> inFlight[id].toolName,
           params |-> inFlight[id].params, handler |-> inFlight[id].handler,
           settled |-> inFlight[id].settled,
           outcome |-> execute_tool_settle(inFlight[FrameOf(id)].settled)]]
  /\ UNCHANGED <<tools, categories, toolsByCategory, regCount, serverTools,
                 last, hostButInFlight>>

\* the response has gone out; the next request can come in
ExecuteToolDone(id) ==
  /\ inFlight[id].pc = "returned"
  /\ inFlight' = [inFlight EXCEPT ![id] = Idle]
  /\ UNCHANGED <<tools, categories, toolsByCategory, regCount, serverTools,
                 last, hostButInFlight>>

ConcNext ==
  \/ ConcRegister
  \/ RegisterMetaTools
  \/ \E id \in Invocations, toolName \in ExecutedNames :
       ExecuteToolInvoke(id, toolName)
  \/ \E id \in Invocations : HandlerSettle(id)
  \/ \E id \in Invocations : ExecuteToolResume(id)
  \/ \E id \in Invocations : ExecuteToolDone(id)
  \/ ListCategories
  \/ Return

ConcSpec == Init /\ [][ConcNext]_vars

\* the event loop runs the continuation of an await whose promise has
\* settled; nothing makes a handler's promise settle
ConcFairSpec ==
  ConcSpec /\ \A id \in Invocations : WF_vars(ExecuteToolResume(id))

\* the invocation of the request has returned
HasReturned(id) == inFlight[id].pc = "returned"

\* what execute_tool returns for the handler call of the request itself
OwnOutcome(id) ==
  LET call == inFlight[id] IN
  IF call.handler = Null
  THEN [kind |-> "return", value |-> execute_tool_notFound(call.toolName)]
  ELSE execute_tool_settle(call.settled)

\* C22: with several execute_tool invocations in flight, interleaved where
\* their handlers are awaited, every invocation that has returned returned
\* the result of its own handler call, or the error result built from that
\* call's rejection; a step of one invocation leaves every other invocation
\* as it was, whether it failed or not; and no step of an invocation changes
\* the registry.
C22_InFlightInvocationsAreIndependent ==
  /\ [](\A id \in Invocations :
          HasReturned(id) =>
            /\ inFlight[id].outcome = OwnOutcome(id)
            /\ inFlight[id].handler # Null =>
                 inFlight[id].settled
                   \in HandlerOutcomes(inFlight[id].handler, RequestParams(id)))
  /\ [][/\ \A id \in Invocations :
             inFlight'[id] # inFlight[id] =>
               \A other \in Invocations \ {id} :
                 inFlight'[other] = inFlight[other]
        /\ inFlight' # inFlight => registry' = registry]_vars

\* two invocations of registered tools have returned, the first with the
\* error result of its rejected handler call, the second with its handler's
\* result
C22_Witness ==
  /\ MaxInflight >= 2
  /\ HasReturned(1) /\ HasReturned(2)
  /\ inFlight[1].handler # Null /\ inFlight[2].handler # Null
  /\ inFlight[1].settled.kind = "reject"
  /\ IsErrorFlagged(inFlight[1].outcome.value)
  /\ inFlight[2].settled.kind = "resolve"
  /\ inFlight[2].outcome.value.structuredContent.params = RequestParams(2)

\* the handler call of the request is awaited and has not settled
IsPending(id) == inFlight[id].pc = "pending"

\* the handler call of the request has settled
HasSettled(id) == inFlight[id].pc = "settled"

\* C23: execute_tool returns only when its handler call has settled: an
\* invocation whose handler call is pending does not return in that state,
\* so it never returns while the call never settles, there being no timeout
\* and no cancellation; once the handler call has settled the invocation
\* eventually returns, whatever the other invocations in flight do, those
\* that never settle included.
C23_ReturnsExactlyWhenHandlerSettles ==
  /\ [][\A id \in Invocations :
          IsPending(id) => IsPending(id)' \/ HasSettled(id)']_vars
  /\ \A id \in Invocations : HasSettled(id) ~> HasReturned(id)

\* one invocation is still waiting for its handler while a later
\* list_categories request has been answered and another invocation has
\* returned its handler's result
C23_Witness ==
  /\ MaxInflight >= 2
  /\ IsPending(1)
  /\ last.op = "list_categories"
  /\ HasReturned(2)
  /\ inFlight[2].handler # Null

----------------------------------------------------------------------------
(* Growth of the registry *)

\* s is an initial part of t
IsPrefix(s, t) == Len(s) <= Len(t) /\ SubSeq(t, 1, Len(s)) = s

\* C24: across registerTool calls, reads and meta-operations on a registry
\* nothing is removed: in every step the registered names stay registered,
\* every category keeps the names its list has, in their places, and no
\* toolCount goes down.
C24_NothingIsRemoved ==
  [][/\ RegisteredNames \subseteq RegisteredNames'
     /\ MapKeys(toolsByCategory') = MapKeys(toolsByCategory)
     /\ \A i \in 1..Len(toolsByCategory) :
          IsPrefix(toolsByCategory[i].value, toolsByCategory'[i].value)
     /\ MapKeys(categories') = MapKeys(categories)
     /\ \A i \in 1..Len(categories) :
          categories'[i].value.toolCount >= categories[i].value.toolCount]_vars

\* a registerTool call has just added a second name to the list of issues,
\* whose first name is still there
C24_Witness ==
  /\ last.op = "registerTool"
  /\ last.category = issues
  /\ Len(MapGet(toolsByCategory, issues)) = 2
  /\ ToolCount(issues) = 2
  /\ Cardinality(RegisteredNames) = 2

----------------------------------------------------------------------------
(* The module's registry instance: getRegistry, resetRegistry *)

\* the reference to the n-th registry getRegistry constructed
Instance(n) == [instance |-> n]

\* getRegistry whose registries share their maps: a new instance starts with
\* what the one before it held
getRegistry_maps_shared == registry

\* getRegistry: the maps of the registry it returns; new ToolRegistry() has
\* empty tools and the seeded categories
getRegistry_maps ==
  IF registryInstance = Null
  THEN <<<<>>, initCategories, initToolsByCategory>>
  ELSE registry

\* getRegistry()
GetRegistry ==
  /\ last = NoCall
  /\ registryInstance = Null => constructed < MaxInstances
  /\ registryInstance' = IF registryInstance = Null
                         THEN Instance(constructed + 1)
                         ELSE registryInstance
  /\ constructed' = IF registryInstance = Null THEN constructed + 1
                    ELSE constructed
  /\ tools' = getRegistry_maps[1]
  /\ categories' = getRegistry_maps[2]
  /\ toolsByCategory' = getRegistry_maps[3]
  /\ last' = [op |-> "getRegistry", result |-> registryInstance']
  /\ UNCHANGED <<regCount, serverTools, hostButSingleton>>

\* resetRegistry()
ResetRegistry ==
  /\ last = NoCall
  /\ registryInstance' = Null
  /\ last' = [op |-> "resetRegistry"]
  /\ UNCHANGED <<tools, categories, toolsByCategory, regCount, serverTools,
                 constructed, hostButSingleton>>

\* registerTool called on the registry getRegistry() returns
RegisterOnInstance(name) ==
  /\ registryInstance # Null
  /\ regCount < MaxRegs
  /\ RegisterTool(name, issues,
                  [title |-> name, description |-> name,
                   inputSchema |-> <<>>, outputSchema |-> <<>>,
                   handler |-> [fn |-> "h1"]])

\* hasTool called on the registry getRegistry() returns
HasToolOnInstance(toolName) ==
  /\ registryInstance # Null
  /\ last = NoCall
  /\ last' = [op |-> "hasTool", toolName |-> toolName,
              result |-> hasTool(toolName)]
  /\ UNCHANGED <<tools, categories, toolsByCategory, regCount, serverTools, host>>

SingletonNext ==
  \/ GetRegistry
  \/ ResetRegistry
  \/ \E name \in ToolNames : RegisterOnInstance(name)
  \/ \E toolName \in ToolNames : HasToolOnInstance(toolName)
  \/ Return

SingletonSpec == Init /\ [][SingletonNext]_vars

\* a registry as new ToolRegistry() leaves it
IsFreshRegistry ==
  /\ tools = <<>>
  /\ getAllToolNames = <<>>
  /\ \A c \in SeededNames : ToolCount(c) = 0 /\ MapGet(toolsByCategory, c) = <<>>
  /\ \A name \in ToolNames : ~hasTool(name) /\ getHandler(name) = Null

\* C25: getRegistry() returns the same registry instance, with what it
\* holds, on every call until resetRegistry() is called; the first
\* getRegistry() after a resetRegistry() returns an instance that no call
\* returned before, with no registered operation and every seeded category
\* at count 0, through which no operation registered before the reset
\* resolves.
C25_SingletonUntilReset ==
  /\ [](last.op = "getRegistry" =>
          /\ last.result = registryInstance
          /\ last.result # Null
          /\ last.result = Instance(constructed))
  /\ [][last'.op = "getRegistry" =>
          IF registryInstance # Null
          THEN /\ last'.result = registryInstance
               /\ registry' = registry
               /\ constructed' = constructed
          ELSE /\ last'.result \notin { Instance(n) : n \in 0..constructed }
               /\ IsFreshRegistry']_vars

\* getRegistry() has just returned the second registry, after a reset of
\* the first, which held an operation
C25_Witness ==
  /\ last.op = "getRegistry"
  /\ last.result = Instance(2)
  /\ regCount > 0
  /\ IsFreshRegistry

----------------------------------------------------------------------------
(* The read methods of the registry, called directly *)

\* ToolRegistry.listCategories
ListCategoriesCall ==
  /\ last = NoCall
  /\ last' = [op |-> "listCategories", result |-> listCategories]
  /\ categories' = listCategories_categories
  /\ UNCHANGED <<tools, toolsByCategory, regCount, serverTools, host>>

\* ToolRegistry.listTools
ListToolsCall(category) ==
  /\ last = NoCall
  /\ last' = [op |-> "listTools", category |-> category,
              result |-> listTools(category)]
  /\ UNCHANGED <<tools, categories, toolsByCategory, regCount, serverTools, host>>

\* ToolRegistry.getToolSchema
GetToolSchemaCall(toolName) ==
  /\ last = NoCall
  /\ last' = [op |-> "getToolSchema", toolName |-> toolName,
              result |-> getToolSchema(toolName)]
  /\ UNCHANGED <<tools, categories, toolsByCategory, regCount, serverTools, host>>

\* ToolRegistry.getHandler
GetHandlerCall(toolName) ==
  /\ last = NoCall
  /\ last' = [op |-> "getHandler", toolName |-> toolName,
              result |-> getHandler(toolName)]
  /\ UNCHANGED <<tools, categories, toolsByCategory, regCount, serverTools, host>>

\* ToolRegistry.hasTool
HasToolCall(toolName) ==
  /\ last = NoCall
  /\ last' = [op |-> "hasTool", toolName |-> toolName,
              result |-> hasTool(toolName)]
  /\ UNCHANGED <<tools, categories, toolsByCategory, regCount, serverTools, host>>

\* ToolRegistry.getAllToolNames
GetAllToolNamesCall ==
  /\ last = NoCall
  /\ last' = [op |-> "getAllToolNames", result |-> getAllToolNames]
  /\ UNCHANGED <<tools, categories, toolsByCategory, regCount, serverTools, host>>

\* the schema mappings handed to serializeSchema next to the registry's
\* other reads: no nesting
ReadSchemas == SchemaMappings(0)

\* search arguments of the reads
ReadQueries == { <<>>, <<"A">>, <<"x">> }

ReadNext ==
  \/ /\ regCount < MaxRegs
     /\ \E name \in ToolNames, category \in RegCategories, def \in ToolDefs :
          /\ def.handler.fn = "h1"
          /\ RegisterTool(name, category, def)
  \/ RegisterMetaTools
  \/ ListCategoriesCall
  \/ \E category \in ListedCategories : ListToolsCall(category)
  \/ \E query \in ReadQueries, limit \in {1, DefaultLimit} :
       SearchRegistry(query, limit)
  \/ \E toolName \in ExecutedNames : GetToolSchemaCall(toolName)
  \/ \E toolName \in ExecutedNames : GetHandlerCall(toolName)
  \/ \E toolName \in ExecutedNames : HasToolCall(toolName)
  \/ GetAllToolNamesCall
  \/ \E schema \in ReadSchemas : SerializeSchema(schema)
  \/ ListCategories
  \/ \E category \in ListedCategories : ListTools(category)
  \/ \E args \in SearchArgs : SearchTools(args)
  \/ \E toolName \in ExecutedNames : GetToolSchema(toolName)
  \/ Return

ReadSpec == Init /\ [][ReadNext]_vars

\* the read methods of the registry and the meta-operations that only read
ReadOps ==
  { "listCategories", "listTools", "searchTools", "getToolSchema",
    "getHandler", "hasTool", "getAllToolNames", "serializeSchema",
    "list_categories", "list_tools", "search_tools", "get_tool_schema" }

\* C26: listCategories, listTools, searchTools, getToolSchema, getHandler,
\* hasTool, getAllToolNames and serializeSchema, and the meta-operations
\* list_categories, list_tools, search_tools and get_tool_schema leave the
\* tools map, the categories with their counts and the per-category name
\* lists as they were, for every input, names and categories the registry
\* does not know included.
C26_ReadsLeaveTheRegistryUnchanged ==
  [][last'.op \in ReadOps =>
       /\ tools' = tools
       /\ categories' = categories
       /\ toolsByCategory' = toolsByCategory]_vars

\* listCategories has returned on a registry with a tool, the categories
\* without tools left out of its result and still in the map
C26_Witness ==
  /\ last.op = "listCategories"
  /\ Len(last.result) = 1
  /\ Len(tools) > 0
  /\ Len(categories) = Len(categoryDefs)

----------------------------------------------------------------------------
(* create_or_update_file (tools/repositories.ts) and the GitLab client *)

\* a UTF-16 surrogate code unit that has no partner in its string
LoneSurrogate == "\\uD800"

URIError == "URIError"

ZodError == "ZodError"

\* encodeURIComponent on one character of the model's alphabet
EncodeChar(c) ==
  CASE c = "/" -> <<"%", "2", "F">>
    [] c = " " -> <<"%", "2", "0">>
    [] OTHER   -> <<c>>

RECURSIVE EncodeChars(_)
EncodeChars(s) ==
  IF s = <<>> THEN <<>> ELSE EncodeChar(Head(s)) \o EncodeChars(Tail(s))

\* encodeURIComponent: a URIError on an unpaired surrogate
encodeURIComponent(s) ==
  IF \E i \in 1..Len(s) : s[i] = LoneSurrogate
  THEN Throws(URIError)
  ELSE Returns(EncodeChars(s))

\* encodeProjectId
encodeProjectId(projectId) == encodeURIComponent(projectId)

\* the properties CreateOrUpdateFileSchema requires
CreateOrUpdateFileRequired ==
  { "project_id", "file_path", "branch", "content", "commit_message" }

\* CreateOrUpdateFileSchema.parse
CreateOrUpdateFileSchema_parse(params) ==
  IF CreateOrUpdateFileRequired \subseteq DOMAIN params
  THEN Returns(params)
  ELSE Throws(ZodError)

\* the body of the write request
FileBody(args) ==
  [branch         |-> args.branch,
   content        |-> [base64 |-> args.content],
   commit_message |-> args.commit_message,
   encoding       |-> "base64",
   author_email   |-> Get(args, "author_email"),
   author_name    |-> Get(args, "author_name")]

\* the responses fetch can come back with, and its failure
FetchOutcomes ==
  { [ok |-> TRUE, status |-> 200, text |-> "{\"file_path\": \"a/b\"}"],
    [ok |-> TRUE, status |-> 200, text |-> "<html>"],
    [ok |-> FALSE, status |-> 404, text |-> "404 File Not Found"],
    [ok |-> FALSE, status |-> 500, text |-> "Internal Server Error"],
    [failed |-> "fetch failed"] }

\* GitLabClient.fetch from the settling of its fetch call on
GitLabClient_fetch(response) ==
  IF "failed" \in DOMAIN response THEN Throws(response.failed)
  ELSE IF ~response.ok
  THEN Throws(<<"GitLab API error: ", response.status, "\n", response.text>>)
  ELSE IF response.text = "<html>" THEN Throws("SyntaxError")
  ELSE Returns([json |-> response.text])

\* a fetch call as the client makes it
Request(method, url, body) ==
  [method |-> method, url |-> url, body |-> body, settled |-> FALSE]

\* the request with its outcome
Settled(request, outcome) == [request EXCEPT !.settled = TRUE] @@ [outcome |-> outcome]

\* the handler from its call to its first await
CreateOrUpdateFile(params) ==
  LET parsed == CreateOrUpdateFileSchema_parse(params) IN
  /\ fileCall = Idle
  /\ IF Raised(parsed)
     THEN /\ fileCall' = [pc |-> "rejected", error |-> parsed.error]
          /\ requests' = requests
     ELSE
       LET args      == parsed.value
           projectId == encodeProjectId(args.project_id)
           filePath  == encodeURIComponent(args.file_path)
       IN IF Raised(projectId) \/ Raised(filePath)
          THEN /\ fileCall' = [pc |-> "rejected", error |-> URIError]
               /\ requests' = requests
          ELSE
            LET endpoint == <<"/projects/", projectId.value,
                              "/repository/files/", filePath.value>>
                ref == IF args.branch # <<>>
                       THEN encodeURIComponent(args.branch)
                       ELSE Returns(<<>>)
            IN IF Raised(ref)
               THEN \* the catch of the existence check takes the URIError
                    /\ fileCall' = [pc |-> "write", args |-> args,
                                    fileExists |-> FALSE]
                    /\ requests' = Append(requests,
                                     Request("POST", endpoint, FileBody(args)))
               ELSE /\ fileCall' = [pc |-> "get", args |-> args,
                                    endpoint |-> endpoint]
                    /\ requests' =
                         Append(requests,
                           Request("GET",
                                   endpoint \o IF args.branch # <<>>
                                               THEN <<"?ref=", ref.value>>
                                               ELSE <<>>,
                                   Undefined))
  /\ UNCHANGED <<tools, categories, toolsByCategory, regCount, serverTools,
                 last, hostButFile>>

\* the existence check settles; the handler sends the write
ExistenceCheckSettles(response) ==
  LET fileExists == ~Raised(GitLabClient_fetch(response))
      n          == Len(requests)
  IN /\ fileCall.pc = "get"
     /\ fileCall' = [pc |-> "write", args |-> fileCall.args,
                     fileExists |-> fileExists]
     /\ requests' =
          Append([requests EXCEPT ![n] = Settled(requests[n], response)],
                 Request(IF fileExists THEN "PUT" ELSE "POST",
                         fileCall.endpoint, FileBody(fileCall.args)))
     /\ UNCHANGED <<tools, categories, toolsByCategory, regCount,
                    serverTools, last, hostButFile>>

\* the write settles; the handler returns its result or rejects
WriteSettles(response) ==
  LET result == GitLabClient_fetch(response)
      n      == Len(requests)
  IN /\ fileCall.pc = "write"
     /\ fileCall' =
          IF Raised(result)
          THEN [pc |-> "rejected", error |-> result.error]
          ELSE [pc |-> "returned",
                value |-> [content |-> TextContent(JsonStringify(result.value))]]
     /\ requests' = [requests EXCEPT ![n] = Settled(requests[n], response)]
     /\ UNCHANGED <<tools, categories, toolsByCategory, regCount,
                    serverTools, last, hostButFile>>

\* the params create_or_update_file is called with
FileParams ==
  LET full ==
        { [project_id |-> <<"g", "/", "p">>, file_path |-> path,
           branch |-> branch, content |-> content,
           commit_message |-> <<"c">>] :
            path \in { <<"a", "/", "b">>, <<LoneSurrogate>> },
            branch \in { <<>>, <<"m">>, <<"m", LoneSurrogate>> },
            content \in { <<>>, <<"x">> } }
  IN full
     \cup { p @@ [author_email |-> <<"e">>] : p \in full }
     \cup { [project_id |-> <<"g", "/", "p">>] }

FileNext ==
  \/ \E params \in FileParams : CreateOrUpdateFile(params)
  \/ \E response \in FetchOutcomes : ExistenceCheckSettles(response)
  \/ \E response \in FetchOutcomes : WriteSettles(response)

FileSpec == Init /\ [][FileNext]_vars

\* the request is a write
IsWrite(request) == request.method \in {"PUT", "POST"}

\* the existence check came back with the file
GetSucceeded(request) ==
  /\ request.method = "GET"
  /\ request.settled
  /\ ~Raised(GitLabClient_fetch(request.outcome))

\* the existence check came back without the file
GetFailed(request) ==
  /\ request.method = "GET"
  /\ request.settled
  /\ Raised(GitLabClient_fetch(request.outcome))

\* C27: create_or_update_file sends one existence-check GET for the file
\* first and one write after it: a write is the second request, sent when
\* the GET before it has completed, a PUT when that GET succeeded and a POST
\* when it failed; a call that has sent its write, or returned, has sent
\* the GET and the write and nothing else.
C27_OneGetThenOneWrite ==
  /\ \A i \in 1..Len(requests) :
       IsWrite(requests[i]) =>
         /\ i = 2
         /\ requests[i].method = "PUT" => GetSucceeded(requests[1])
         /\ requests[i].method = "POST" => GetFailed(requests[1])
  /\ fileCall.pc \in {"write", "returned"} =>
       /\ Len(requests) = 2
       /\ requests[1].method = "GET"
       /\ IsWrite(requests[2])

----------------------------------------------------------------------------
(* Streamable HTTP: the sessions of POST /mcp and DELETE /mcp *)

\* randomUUID(): the id generated for the n-th transport
Uuids == <<"uuid-1", "uuid-2", "uuid-3", "uuid-4">>

\* a header of the request, or a sessionId of a transport, that is set
Header(value) == [value |-> value]

\* the mcp-session-id headers requests come with: none, an empty one, the
\* ids generated so far, an id never generated, and names of properties
\* every object inherits
SessionHeaders ==
  { Undefined, Header(""), Header("stale"), Header("constructor"),
    Header("toString") }
  \cup { Header(Uuids[n]) : n \in 1..MaxTransports }

\* properties an object literal inherits from Object.prototype
ObjectPrototypeKeys == { "constructor", "toString" }

\* delete obj[key]
MapDelete(map, key) == SelectSeq(map, LAMBDA entry : entry.key # key)

\* streamableTransports[key]: the transport stored under the key, else what
\* the prototype chain gives
PropertyGet(key) ==
  IF MapHas(streamableTransports, key)
  THEN [transport |-> MapGet(streamableTransports, key)]
  ELSE IF key \in ObjectPrototypeKeys THEN [inherited |-> key]
  ELSE Undefined

\* !sessionId
Falsy(header) == header = Undefined \/ header.value = ""

\* the value is a transport object
IsTransport(v) == "transport" \in DOMAIN v

\* the onsessioninitialized callback of transport t
onsessioninitialized(t, newSessionId) ==
  MapSet(streamableTransports, newSessionId, t)

\* the onclose handler of transport t
onclose(t) ==
  LET sid == transports[t].sessionId IN
  IF ~Falsy(sid) /\ PropertyGet(sid.value) # Undefined
  THEN MapDelete(streamableTransports, sid.value)
  ELSE streamableTransports

\* POST /mcp; initialize tells whether the body is an initialize request,
\* on which a new transport generates its session id
PostMcp(sessionId, initialize) ==
  LET found == IF Falsy(sessionId) THEN Undefined
               ELSE PropertyGet(sessionId.value)
      t     == Len(transports) + 1
  IN /\ last = NoCall
     /\ IF found # Undefined
        THEN /\ last' = IF IsTransport(found)
                        THEN [op |-> "POST /mcp", sessionId |-> sessionId,
                              transport |-> found.transport,
                              created |-> FALSE, status |-> 200]
                        ELSE [op |-> "POST /mcp", sessionId |-> sessionId,
                              created |-> FALSE, status |-> 500]
             /\ UNCHANGED <<streamableTransports, transports>>
        ELSE /\ t <= MaxTransports
             /\ transports' =
                  Append(transports,
                         [sessionId |-> IF initialize THEN Header(Uuids[t])
                                        ELSE Undefined,
                          closed    |-> FALSE])
             /\ streamableTransports' =
                  IF initialize THEN onsessioninitialized(t, Uuids[t])
                  ELSE streamableTransports
             /\ last' = [op |-> "POST /mcp", sessionId |-> sessionId,
                         transport |-> t, created |-> TRUE,
                         status |-> IF initialize THEN 200 ELSE 400]
     /\ UNCHANGED <<tools, categories, toolsByCategory, regCount,
                    serverTools, hostButHttp>>

\* DELETE /mcp
DeleteMcp(sessionId) ==
  LET found == IF Falsy(sessionId) THEN Undefined
               ELSE PropertyGet(sessionId.value)
  IN /\ last = NoCall
     /\ IF Falsy(sessionId)
        THEN /\ last' = [op |-> "DELETE /mcp", sessionId |-> sessionId,
                         status |-> 400,
                         body |-> [error |-> "mcp-session-id header is required"]]
             /\ UNCHANGED <<streamableTransports, transports>>
        ELSE IF found = Undefined
        THEN /\ last' = [op |-> "DELETE /mcp", sessionId |-> sessionId,
                         status |-> 404,
                         body |-> [error |-> "Session not found"]]
             /\ UNCHANGED <<streamableTransports, transports>>
        ELSE IF IsTransport(found)
        THEN \* transport.close() calls the onclose handler
             /\ transports' = [transports EXCEPT ![found.transport].closed = TRUE]
             /\ streamableTransports' = onclose(found.transport)
             /\ last' = [op |-> "DELETE /mcp", sessionId |-> sessionId,
                         status |-> 204]
        ELSE \* transport.close is not a function: the catch answers
             /\ last' = [op |-> "DELETE /mcp", sessionId |-> sessionId,
                         status |-> 500,
                         body |-> [error |-> "Failed to close session"]]
             /\ UNCHANGED <<streamableTransports, transports>>
     /\ UNCHANGED <<tools, categories, toolsByCategory, regCount,
                    serverTools, hostButHttp>>

\* a transport closes without a DELETE; its onclose handler runs
TransportCloses(t) ==
  /\ last = NoCall
  /\ ~transports[t].closed
  /\ transports' = [transports EXCEPT ![t].closed = TRUE]
  /\ streamableTransports' = onclose(t)
  /\ UNCHANGED <<tools, categories, toolsByCategory, regCount, serverTools,
                 last, hostButHttp>>

HttpNext ==
  \/ \E sessionId \in SessionHeaders, initialize \in BOOLEAN :
       PostMcp(sessionId, initialize)
  \/ \E sessionId \in SessionHeaders : DeleteMcp(sessionId)
  \/ \E t \in 1..Len(transports) : TransportCloses(t)
  \/ Return

HttpSpec == Init /\ [][HttpNext]_vars

\* the session id is a key of the active-transport map
IsTracked(key) == MapHas(streamableTransports, key)

\* the transport has had its session-initialized callback and has not closed
IsActiveSession(t) ==
  transports[t].sessionId # Undefined /\ ~transports[t].closed

\* C28: in streamable-HTTP mode a session id is a key of the
\* active-transport map exactly from the session-initialized callback of its
\* transport until that transport closes; DELETE /mcp answers 400 when the
\* mcp-session-id header is missing and 404 when the id is not a key of the
\* map, and leaves the map as it was in both cases; POST /mcp with an id
\* that is a key goes to the transport stored under it and creates none.
C28_SessionsTrackedWhileOpen ==
  /\ [](/\ \A t \in 1..Len(transports) :
             IsActiveSession(t) =>
               /\ IsTracked(transports[t].sessionId.value)
               /\ MapGet(streamableTransports, transports[t].sessionId.value) = t
        /\ \A i \in 1..Len(streamableTransports) :
             LET entry == streamableTransports[i] IN
               /\ IsActiveSession(entry.value)
               /\ transports[entry.value].sessionId = Header(entry.key))
  /\ [][/\ (last'.op = "DELETE /mcp" /\ Falsy(last'.sessionId)) =>
             /\ last'.status = 400
             /\ streamableTransports' = streamableTransports
        /\ (/\ last'.op = "DELETE /mcp"
            /\ ~Falsy(last'.sessionId)
            /\ ~IsTracked(last'.sessionId.value)) =>
             /\ last'.status = 404
             /\ streamableTransports' = streamableTransports
        /\ (/\ last'.op = "POST /mcp"
            /\ ~Falsy(last'.sessionId)
            /\ IsTracked(last'.sessionId.value)) =>
             /\ ~last'.created
             /\ last'.transport
                  = MapGet(streamableTransports, last'.sessionId.value)
             /\ transports' = transports
             /\ streamableTransports' = streamableTransports]_vars

----------------------------------------------------------------------------
(* Consistency of the category maps *)

\* the number of categories the constructor seeds
SeededCount == Len(categoryDefs)

\* C29: in every reachable state of the registry the keys of the categories
\* map and of the per-category lists are the 15 seeded names, registerTool
\* creating and deleting none; the toolCount of every seeded category is the
\* length of its name list; and every name in a list is a registered
\* operation.
C29_CategoryMapsAgree ==
  /\ SeededCount = 15
  /\ Cardinality(SeededNames) = 15
  /\ MapKeys(categories) = [i \in 1..SeededCount |-> categoryDefs[i].name]
  /\ MapKeys(toolsByCategory) = MapKeys(categories)
  /\ \A c \in SeededNames :
       LET names == MapGet(toolsByCategory, c) IN
         /\ ToolCount(c) = Len(names)
         /\ \A i \in 1..Len(names) : hasTool(names[i])

\* registerTool has just been called with a category that is not seeded,
\* on a registry that lists one name twice under issues
C29_Witness ==
  /\ last.op = "registerTool"
  /\ last.category \notin SeededNames
  /\ ToolCount(issues) = 2
  /\ Cardinality(Range(MapGet(toolsByCategory, issues))) = 1

----------------------------------------------------------------------------
(* list_categories and list_tools agree *)

\* list_tools answers the name, in the letter cases of the model, with
\* count tools and no error flag
ListsTools(name, count) ==
  \A v \in {name} \cup CaseVariants(name) :
    LET r == list_tools(v) IN
      /\ ~IsErrorFlagged(r)
      /\ Len(r.structuredContent.tools) >= 1
      /\ Len(r.structuredContent.tools) = count

\* C30: in every reachable state each category that list_categories
\* reports, and so each name that the error text of list_tools enumerates,
\* gives, when passed to list_tools in any letter case, a result that is
\* not error-flagged and holds at least one tool and as many tools as the
\* toolCount reported for the category.
C30_ReportedCategoriesListTools ==
  LET reported == list_categories.structuredContent.categories IN
  /\ \A i \in 1..Len(reported) :
       ListsTools(reported[i].name, reported[i].toolCount)
  /\ (last.op = "list_tools" /\ IsErrorFlagged(last.result)) =>
       LET named == SplitOnComma(last.result.content[1].text[4]) IN
         /\ Len(named) = Len(reported)
         /\ \A i \in 1..Len(named) :
              /\ named[i] = reported[i].name
              /\ ListsTools(named[i], reported[i].toolCount)

\* list_tools has answered "Pipelines" with an error text that names
\* issues, which holds one name twice
C30_Witness ==
  /\ last.op = "list_tools"
  /\ last.category = <<"P","i","p","e","l","i","n","e","s">>
  /\ IsErrorFlagged(last.result)
  /\ SplitOnComma(last.result.content[1].text[4]) = <<issues>>
  /\ ToolCount(issues) = 2
  /\ Len(tools) = 1

====
